---- MODULE Spec2Model ----
\* Model of lib/node/node.go: the Node coordinator of a clustered pub/sub
\* server, two nodes sharing one engine.  Strings that the code parses
\* (channels, user ids) are sequences of one-character strings.
EXTENDS Integers, Sequences, FiniteSets, TLC

\* ------------------------------------------------------------------ bounds
MaxFirst == 3
MaxCtrl == 2
MaxAdmin == 2
MaxForeign == 1
MaxPublish == 2
MaxShutdownCalls == 2
MaxPubNode == 2
MaxUpdates == 2
MaxBroadcast == 2
MaxTime == 3
MaxCleans == 2
MaxLen == 3
MaxNodeInfo == 2

\* ------------------------------------------------------------- the cluster
Nodes == {"n1", "n2"}
\* The uids a registry can hold: the nodes' and a third node's.
UIDs == {<<n>> : n \in Nodes \cup {"n3"}}
Clients == {"c1", "c2", "c3"}
ClientNode(c) == IF c \in {"c1", "c2"} THEN "n1" ELSE "n2"
ClientUser(c) == IF c = "c2" THEN <<"v">> ELSE <<"u">>
ApiUsers == {<<"u">>, <<>>}

Room == <<"r">>
NsRoom == <<"n", ":", "r">>
XRoom == <<"x", ":", "r">>
PrivNsRoom == <<"$", "n", ":", "r">>
SubChannels == {Room, NsRoom}
ApiChannels == {Room, XRoom, <<>>}
PubChannels == {Room, NsRoom, XRoom, PrivNsRoom}

CfgPlain == [PrivateChannelPrefix |-> <<"$">>, NamespaceChannelBoundary |-> <<":">>,
             UserChannelBoundary |-> <<"#">>, UserChannelSeparator |-> <<",">>,
             Namespaces |-> {}]
CfgNs == [PrivateChannelPrefix |-> <<"$">>, NamespaceChannelBoundary |-> <<":">>,
          UserChannelBoundary |-> <<"#">>, UserChannelSeparator |-> <<",">>,
          Namespaces |-> {<<"n">>}]
Configs == {CfgPlain, CfgNs}

ErrNil == "nil"
ErrBadRequest == "BadRequest"
ErrNamespaceNotFound == "NamespaceNotFound"
ErrInternalServerError == "InternalServerError"
ErrEngine == "EngineError"
ErrClient == "ClientError"

\* Publication uids a caller passes, and the ones nuid.Next() hands out.
CallerUIDs == {"", "a"}
GenUIDs == {"g1", "g2"}

\* The channels and user ids the parsing functions are applied to.
Strs(A, k) == UNION {[1..m -> A] : m \in 0..k}
Foo == <<"f", "o", "o">>
NsStrings == Strs({"a", ":", "$"}, MaxLen)
ParseChannels == Strs({"a", "$", ":", "#", ","}, MaxLen)
                 \cup {ns \o <<":">> \o Foo : ns \in NsStrings}
ParseUsers == Strs({"a", ","}, MaxLen - 1)

NoTask == "none"
Idle == [op |-> "idle"]
NoArg == [ch |-> <<>>, user |-> <<>>]
NoRes == [op |-> "none"]

VARIABLES
    config,           \* n.config
    hubConns,         \* hub: registered client connections of each node
    hubSubs,          \* hub: channel -> subscribed clients, of each node
    closing,          \* clients with a spawned `go cc.Close(advice)` not yet run
    call,             \* per client: the AddSubscription/RemoveSubscription call in flight
    engineSubs,       \* engine: channels each node is subscribed to
    numSubscribe,     \* engine.Subscribe invocations per node and channel
    numUnsubscribe,   \* engine.Unsubscribe invocations per node and channel
    numFirst,         \* transitions empty -> non-empty of a channel's subscriber set
    numEmpty,         \* transitions non-empty -> empty of a channel's subscriber set
    registry,         \* n.nodes: uids known to each node
    heard,            \* n.nodes: when each uid was last added (0 when absent)
    inbox,            \* control commands the engine has delivered, not yet handled
    numCtrl,          \* control commands published to the engine
    numAdmin,         \* Unsubscribe and Disconnect calls started
    numForeign,       \* control commands delivered from outside the modelled nodes
    controlReceived,  \* counter node_num_control_received
    adminPc,          \* per node: the Unsubscribe/Disconnect call between its two steps
    enginePubs,       \* engine.Publish/PublishJoin/PublishLeave invocations
    pub,              \* the caller's proto.Publication after the last Publish call
    last,             \* what the last completed handler step returned
    mu,               \* n.mu: [w: task or none, r: set of tasks]
    metricsMu,        \* n.metricsMu
    shutdown,         \* n.shutdown
    closeCount,       \* close(n.shutdownCh) executions
    hubShutdowns,     \* hub.Shutdown invocations
    pc,               \* per node and task: position in Shutdown / pubNode / updateMetricsOnce
    calls,            \* per node and task: calls started
    metricsOnceDone,  \* n.metricsOnce has fired
    metricsSnapshot,  \* n.metricsSnapshot, as the number of the update that stored it
    pubMsg,           \* the control.Node message pubNode is building
    withMetrics,      \* node-info messages built with metrics since the latch was reset
    broadcasts,       \* per node: hub.Broadcast* invocations
    now,              \* the clock, in seconds
    arg,              \* the channel and the user id a parsing function is called with
    res,              \* what the parsing function returned
    hubLockedWith,    \* per node: the hub calls made so far, each with the locks its caller held
    carried,          \* per node: the snapshots that node-info messages have carried
    hubMu             \* the hub's lock: [w, r, p] as n.mu

hubVars == <<hubConns, hubSubs, closing, call, engineSubs, numSubscribe, numUnsubscribe,
             numFirst, numEmpty>>
pubVars == <<enginePubs, pub>>
ctrlVars == <<registry, heard, inbox, numCtrl, numAdmin, numForeign, controlReceived, adminPc>>
nodeVars == <<mu, metricsMu, shutdown, closeCount, hubShutdowns, pc, calls,
              metricsOnceDone, metricsSnapshot, pubMsg, withMetrics>>
parseVars == <<arg, res>>
extVars == <<broadcasts, now, parseVars, hubLockedWith, carried, hubMu>>
vars == <<config, hubVars, ctrlVars, pubVars, last, nodeVars, extVars>>

\* ------------------------------------------------------------ string helpers
HasPrefix(s, p) == Len(p) <= Len(s) /\ SubSeq(s, 1, Len(p)) = p

TrimPrefix(s, p) == IF HasPrefix(s, p) THEN SubSeq(s, Len(p) + 1, Len(s)) ELSE s

\* strings.Index for a non-empty separator; 0 when absent.
Index(s, sep) ==
    LET hits == {i \in 1..Len(s) : i + Len(sep) - 1 <= Len(s)
                                   /\ SubSeq(s, i, i + Len(sep) - 1) = sep}
    IN IF hits = {} THEN 0 ELSE CHOOSE i \in hits : \A j \in hits : i <= j

Contains(s, sep) == Index(s, sep) # 0

\* strings.SplitN(s, sep, 2)[0] when s contains sep.
SplitN2First(s, sep) == SubSeq(s, 1, Index(s, sep) - 1)

namespaceNameThroughBoundary(cfg, ch) ==
    LET cTrim == TrimPrefix(ch, cfg.PrivateChannelPrefix)
    IN IF Contains(cTrim, cfg.NamespaceChannelBoundary)
       THEN SubSeq(cTrim, 1, Index(cTrim, cfg.NamespaceChannelBoundary))
       ELSE <<>>

namespaceName(cfg, ch) ==
    LET cTrim == TrimPrefix(ch, cfg.PrivateChannelPrefix)
    IN IF Contains(cTrim, cfg.NamespaceChannelBoundary)
       THEN SplitN2First(cTrim, cfg.NamespaceChannelBoundary)
       ELSE <<>>

\* strings.Split(s, sep) for a non-empty separator.
RECURSIVE Split(_, _)
Split(s, sep) ==
    IF ~Contains(s, sep) THEN <<s>>
    ELSE <<SubSeq(s, 1, Index(s, sep) - 1)>>
         \o Split(SubSeq(s, Index(s, sep) + Len(sep), Len(s)), sep)

\* Config.channelOpts: the top-level options for the empty namespace, else a lookup.
channelOpts(cfg, nk) == [ok |-> nk = <<>> \/ nk \in cfg.Namespaces]

userAllowedFirstList(cfg, ch, user) ==
    IF ~Contains(ch, cfg.UserChannelBoundary) THEN TRUE
    ELSE LET parts == Split(ch, cfg.UserChannelBoundary)
             allowedUsers == Split(parts[2], cfg.UserChannelSeparator)
         IN \E i \in 1..Len(allowedUsers) : user = allowedUsers[i]

\* The body of UserAllowed under the read lock.
userAllowed(cfg, ch, user) ==
    IF ~Contains(ch, cfg.UserChannelBoundary) THEN TRUE
    ELSE LET parts == Split(ch, cfg.UserChannelBoundary)
             allowedUsers == Split(parts[Len(parts)], cfg.UserChannelSeparator)
         IN \E i \in 1..Len(allowedUsers) : user = allowedUsers[i]

ChannelOptsAlwaysOk(n, ch) == [ok |-> TRUE]

ChannelOpts(n, ch) == channelOpts(config[n], namespaceName(config[n], ch))

\* n.mu.RLock() succeeds when no writer holds the lock or waits for it.
CanRLock(n) == mu[n].w = NoTask /\ mu[n].p = {}
\* A method of the hub can take the hub's lock: no writer holds it or waits for
\* it (the hub's methods are critical sections that call nothing of the node).
HubFree(n) == hubMu[n].w = NoTask /\ hubMu[n].p = {}
CanLock(n) == mu[n].w = NoTask /\ mu[n].r = {}

\* ------------------------------------------------------------------ the hub
UserConnections(n, user) == {c \in hubConns[n] : ClientUser(c) = user}

\* Client.Channels(): the channels the client is subscribed to.
Channels(c) == {ch \in SubChannels : c \in hubSubs[ClientNode(c)][ch]}

TotalFirst ==
    LET cnt(n) == numFirst[n][Room] + numFirst[n][NsRoom]
    IN cnt("n1") + cnt("n2")

Bump(f, n, chs) == [f EXCEPT ![n] = [ch \in SubChannels |->
                                       IF ch \in chs THEN f[n][ch] + 1 ELSE f[n][ch]]]

\* hub.AddSub(ch, c): first is true iff the channel had no subscriber.
HubAddSub(n, ch, c) ==
    [first |-> hubSubs[n][ch] = {},
     subs |-> [hubSubs[n] EXCEPT ![ch] = @ \cup {c}]]

\* hub.RemoveSub(ch, c): empty is true iff the channel's set became empty.
HubRemoveSub(n, ch, c) ==
    [empty |-> hubSubs[n][ch] # {} /\ hubSubs[n][ch] \ {c} = {},
     subs |-> [hubSubs[n] EXCEPT ![ch] = @ \ {c}]]

\* ------------------------------------------- AddSubscription / RemoveSubscription
AddSubscriptionBuggy(c, ch) ==
    LET n == ClientNode(c)
        r == HubAddSub(n, ch, c)
    IN /\ c \in hubConns[n]
       /\ call[c] = Idle
       /\ r.first => TotalFirst < MaxFirst
       /\ hubSubs' = [hubSubs EXCEPT ![n] = r.subs]
       /\ numFirst' = IF hubSubs[n][ch] = {} /\ r.subs[ch] # {}
                      THEN Bump(numFirst, n, {ch}) ELSE numFirst
       /\ call' = [call EXCEPT ![c] = [op |-> "Subscribe", ch |-> ch]]
       /\ UNCHANGED <<hubConns, closing, engineSubs, numSubscribe, numUnsubscribe, numEmpty>>
       /\ UNCHANGED <<config, extVars, ctrlVars, pubVars, last, nodeVars>>

\* AddSubscription up to the return of hub.AddSub; the call goes on to
\* engine.Subscribe iff the hub reported the first subscriber.
AddSubscription(c, ch) ==
    LET n == ClientNode(c)
        r == HubAddSub(n, ch, c)
    IN /\ c \in hubConns[n]
       /\ HubFree(n)
       /\ call[c] = Idle
       /\ r.first => TotalFirst < MaxFirst
       /\ hubSubs' = [hubSubs EXCEPT ![n] = r.subs]
       /\ numFirst' = IF hubSubs[n][ch] = {} /\ r.subs[ch] # {}
                      THEN Bump(numFirst, n, {ch}) ELSE numFirst
       /\ call' = [call EXCEPT ![c] = IF r.first THEN [op |-> "Subscribe", ch |-> ch]
                                                 ELSE Idle]
       /\ UNCHANGED <<hubConns, closing, engineSubs, numSubscribe, numUnsubscribe, numEmpty>>
       /\ UNCHANGED <<config, extVars, ctrlVars, pubVars, last, nodeVars>>

\* AddSubscription: return n.engine.Subscribe(ch)
AddSubscriptionSubscribe(c) ==
    LET n == ClientNode(c)
    IN /\ call[c].op = "Subscribe"
       /\ numSubscribe' = Bump(numSubscribe, n, {call[c].ch})
       /\ engineSubs' = [engineSubs EXCEPT ![n] = @ \cup {call[c].ch}]
       /\ call' = [call EXCEPT ![c] = Idle]
       /\ UNCHANGED <<hubConns, hubSubs, closing, numUnsubscribe, numFirst, numEmpty>>
       /\ UNCHANGED <<config, extVars, ctrlVars, pubVars, last, nodeVars>>

\* RemoveSubscription up to the return of hub.RemoveSub.
RemoveSubscription(c, ch) ==
    LET n == ClientNode(c)
        r == HubRemoveSub(n, ch, c)
    IN /\ c \in hubConns[n]
       /\ HubFree(n)
       /\ call[c] = Idle
       /\ hubSubs' = [hubSubs EXCEPT ![n] = r.subs]
       /\ numEmpty' = IF hubSubs[n][ch] # {} /\ r.subs[ch] = {}
                      THEN Bump(numEmpty, n, {ch}) ELSE numEmpty
       /\ call' = [call EXCEPT ![c] = IF r.empty THEN [op |-> "Unsubscribe", ch |-> ch]
                                                 ELSE Idle]
       /\ UNCHANGED <<hubConns, closing, engineSubs, numSubscribe, numUnsubscribe, numFirst>>
       /\ UNCHANGED <<config, extVars, ctrlVars, pubVars, last, nodeVars>>

\* RemoveSubscription: return n.engine.Unsubscribe(ch)
RemoveSubscriptionUnsubscribe(c) ==
    LET n == ClientNode(c)
    IN /\ call[c].op = "Unsubscribe"
       /\ numUnsubscribe' = Bump(numUnsubscribe, n, {call[c].ch})
       /\ engineSubs' = [engineSubs EXCEPT ![n] = @ \ {call[c].ch}]
       /\ call' = [call EXCEPT ![c] = Idle]
       /\ UNCHANGED <<hubConns, hubSubs, closing, numSubscribe, numFirst, numEmpty>>
       /\ UNCHANGED <<config, extVars, ctrlVars, pubVars, last, nodeVars>>

\* AddClient: hub.Add(c) registers a connection that is not yet known.
AddClient(c) ==
    LET n == ClientNode(c)
    IN /\ c \notin hubConns[n]
       /\ HubFree(n)
       /\ c \notin closing
       /\ call[c] = Idle
       /\ hubConns' = [hubConns EXCEPT ![n] = @ \cup {c}]
       /\ UNCHANGED <<hubSubs, closing, call, engineSubs, numSubscribe, numUnsubscribe,
                      numFirst, numEmpty>>
       /\ UNCHANGED <<config, extVars, ctrlVars, pubVars, last, nodeVars>>

\* The effect on node n of Client.Unsubscribe succeeding for the pairs P of
\* <<client, channel>>: the client leaves the channel, and the node's
\* RemoveSubscription tells the engine when the channel became empty.
RemovePairs(n, P) ==
    LET newSubs == [ch \in SubChannels |-> hubSubs[n][ch] \ {c \in Clients : <<c, ch>> \in P}]
        emptied == {ch \in SubChannels : hubSubs[n][ch] # {} /\ newSubs[ch] = {}}
    IN /\ hubSubs' = [hubSubs EXCEPT ![n] = newSubs]
       /\ numEmpty' = Bump(numEmpty, n, emptied)
       /\ numUnsubscribe' = Bump(numUnsubscribe, n, emptied)
       /\ engineSubs' = [engineSubs EXCEPT ![n] = @ \ emptied]

\* Client.Close, run by the goroutine disconnectUser spawned: the client
\* leaves its channels and the hub.
CloseClient(c) ==
    LET n == ClientNode(c)
    IN /\ c \in closing
       /\ closing' = closing \ {c}
       /\ hubConns' = [hubConns EXCEPT ![n] = @ \ {c}]
       /\ RemovePairs(n, {<<c, ch>> : ch \in SubChannels})
       /\ UNCHANGED <<call, numSubscribe, numFirst>>
       /\ UNCHANGED <<config, extVars, ctrlVars, pubVars, last, nodeVars>>

\* ------------------------------------------------------------ control codec
\* Params are protobuf messages: a field that is absent decodes to its zero value.
Field(p, f) == IF f \in DOMAIN p THEN p[f] ELSE <<>>
BadParams == [Malformed |-> <<>>]
DecodeOk(p) == "Malformed" \notin DOMAIN p

EncodeUnsubscribe(u) == [User |-> u.User, Channel |-> u.Channel]
DecodeUnsubscribe(p) == [User |-> Field(p, "User"), Channel |-> Field(p, "Channel")]
EncodeDisconnect(d) == [User |-> d.User]
DecodeDisconnect(p) == [User |-> Field(p, "User")]
\* A node's metrics map travels as the number of the snapshot, 0 for an empty map.
EncodeNode(nd) == [UID |-> <<nd.UID>>,
                   Metrics |-> IF nd.Metrics = 0 THEN <<>> ELSE <<nd.Metrics>>]
DecodeNode(p) == [UID |-> Field(p, "UID"), Metrics |-> Field(p, "Metrics")]

\* What a handler returned; hit records whether it changed a subscription or
\* scheduled a close.
Ret(op, n, err, hit) == [op |-> op, err |-> err, hit |-> hit]

\* engine.PublishControl succeeding: the engine hands the command to every node.
Deliver(cmd) ==
    /\ numCtrl < MaxCtrl
    /\ numCtrl' = numCtrl + 1
    /\ inbox' = [m \in Nodes |-> Append(inbox[m], cmd)]

\* ------------------------------------------------------------ SetConfig
SetConfig(n, c) ==
    /\ CanLock(n)
    /\ c # config[n]
    /\ config' = [config EXCEPT ![n] = c]
    /\ UNCHANGED <<extVars, hubVars, ctrlVars, pubVars, last, nodeVars>>

\* ------------------------------------------------------------ channel parsing
\* namespaceName(ch), as ChannelOpts calls it under the read lock.
NamespaceName(n) ==
    /\ CanRLock(n)
    /\ res' = [op |-> "namespaceName", node |-> n, val |-> namespaceName(config[n], arg.ch)]
    /\ UNCHANGED <<arg, broadcasts, now, hubLockedWith, carried, hubMu>>
    /\ UNCHANGED <<config, hubVars, ctrlVars, pubVars, last, nodeVars>>

\* UserAllowed(ch, user)
UserAllowed(n) ==
    /\ CanRLock(n)
    /\ res' = [op |-> "UserAllowed", node |-> n, val |-> userAllowed(config[n], arg.ch, arg.user)]
    /\ UNCHANGED <<arg, broadcasts, now, hubLockedWith, carried, hubMu>>
    /\ UNCHANGED <<config, hubVars, ctrlVars, pubVars, last, nodeVars>>

\* ------------------------------------------------------------ Publish
PublishKeepUID(n, ch, uid, optsNil) ==
    /\ optsNil => CanRLock(n)
    /\ IF optsNil /\ ~ChannelOpts(n, ch).ok
       THEN /\ last' = Ret("Publish", n, ErrNamespaceNotFound, FALSE)
            /\ pub' = [UID |-> uid]
            /\ enginePubs' = enginePubs
            /\ UNCHANGED <<config, extVars, hubVars, ctrlVars, nodeVars>>
       ELSE /\ enginePubs < MaxPublish
            /\ enginePubs' = enginePubs + 1
            /\ pub' = [UID |-> uid]
            /\ \E err \in {ErrNil, ErrEngine} : last' = Ret("Publish", n, err, FALSE)
            /\ UNCHANGED <<config, extVars, hubVars, ctrlVars, nodeVars>>

\* Publish(ch, pub, opts) with pub.UID = uid and opts nil or given: the
\* options are resolved when nil, an empty UID is replaced by nuid.Next(), and
\* the engine's future resolves to nil or to the engine's error.
Publish(n, ch, uid, optsNil) ==
    /\ optsNil => CanRLock(n)
    /\ IF optsNil /\ ~ChannelOpts(n, ch).ok
       THEN /\ last' = Ret("Publish", n, ErrNamespaceNotFound, FALSE)
            /\ pub' = [UID |-> uid]
            /\ enginePubs' = enginePubs
            /\ UNCHANGED <<config, extVars, hubVars, ctrlVars, nodeVars>>
       ELSE /\ enginePubs < MaxPublish
            /\ enginePubs' = enginePubs + 1
            /\ \E g \in GenUIDs : pub' = [UID |-> IF uid = "" THEN g ELSE uid]
            /\ \E err \in {ErrNil, ErrEngine} : last' = Ret("Publish", n, err, FALSE)
            /\ UNCHANGED <<config, extVars, hubVars, ctrlVars, nodeVars>>

PublishJoin(n, ch, optsNil) ==
    /\ optsNil => CanRLock(n)
    /\ IF optsNil /\ ~ChannelOpts(n, ch).ok
       THEN /\ last' = Ret("PublishJoin", n, ErrNamespaceNotFound, FALSE)
            /\ UNCHANGED <<config, extVars, hubVars, ctrlVars, pubVars, nodeVars>>
       ELSE /\ enginePubs < MaxPublish
            /\ enginePubs' = enginePubs + 1
            /\ \E err \in {ErrNil, ErrEngine} : last' = Ret("PublishJoin", n, err, FALSE)
            /\ UNCHANGED <<config, extVars, hubVars, ctrlVars, pub, nodeVars>>

PublishLeave(n, ch, optsNil) ==
    /\ optsNil => CanRLock(n)
    /\ IF optsNil /\ ~ChannelOpts(n, ch).ok
       THEN /\ last' = Ret("PublishLeave", n, ErrNamespaceNotFound, FALSE)
            /\ UNCHANGED <<config, extVars, hubVars, ctrlVars, pubVars, nodeVars>>
       ELSE /\ enginePubs < MaxPublish
            /\ enginePubs' = enginePubs + 1
            /\ \E err \in {ErrNil, ErrEngine} : last' = Ret("PublishLeave", n, err, FALSE)
            /\ UNCHANGED <<config, extVars, hubVars, ctrlVars, pub, nodeVars>>

\* ------------------------------------------------------------ unsubscribeUser
\* The <<connection, channel>> pairs the loops of unsubscribeUser visit.
unsubscribeUserPairs(n, user, ch) ==
    UNION {{<<c, x>> : x \in (IF ch = <<>> THEN Channels(c) ELSE {ch})} :
           c \in UserConnections(n, user)}

\* What unsubscribeUser can do: every Client.Unsubscribe succeeds, or one
\* fails and the loops stop there, in the iteration order of the two maps.
unsubscribeUserOutcomes(n, user, ch) ==
    LET all == unsubscribeUserPairs(n, user, ch)
        conns == UserConnections(n, user)
        of(cs) == {p \in all : p[1] \in cs}
        stopped(p) == {of(D) \cup {<<p[1], x>> : x \in E} :
                         D \in SUBSET (conns \ {p[1]}),
                         E \in SUBSET ({q[2] : q \in of({p[1]})} \ {p[2]})}
    IN {[err |-> ErrNil, done |-> all]}
       \cup {[err |-> ErrClient, done |-> d] : d \in UNION {stopped(p) : p \in all}}

unsubscribeUser(n, o) == RemovePairs(n, o.done)

\* Whether unsubscribing the pairs takes some client out of a channel.
Hit(n, done) == \E p \in done : p[2] \in SubChannels /\ p[1] \in hubSubs[n][p[2]]

\* ------------------------------------------------------------ disconnectUser
\* disconnectUser spawns one goroutine per connection of the user and returns nil.
disconnectUser(n, user) == closing' = closing \cup UserConnections(n, user)

\* ------------------------------------------------------------ Unsubscribe
pubUnsubscribeAsDisconnect(n, user, ch) ==
    [uid |-> n, method |-> "disconnect",
     params |-> EncodeUnsubscribe([User |-> user, Channel |-> <<>>]),
     src |-> [op |-> "Unsubscribe", user |-> user, ch |-> ch]]

\* The command pubUnsubscribe builds: control.Unsubscribe{User: user}.
pubUnsubscribe(n, user, ch) ==
    [uid |-> n, method |-> "unsubscribe",
     params |-> EncodeUnsubscribe([User |-> user, Channel |-> <<>>]),
     src |-> [op |-> "Unsubscribe", user |-> user, ch |-> ch]]

UnsubscribeBadRequest(n, user, ch) ==
    /\ user = <<>>
    /\ last' = Ret("Unsubscribe", n, ErrBadRequest, FALSE)
    /\ UNCHANGED <<config, extVars, hubVars, registry, heard, inbox, numCtrl, numForeign, controlReceived,
                   adminPc, pubVars, nodeVars>>

UnsubscribeNamespaceNotFound(n, user, ch) ==
    /\ user # <<>>
    /\ ch # <<>>
    /\ CanRLock(n)
    /\ ~ChannelOpts(n, ch).ok
    /\ last' = Ret("Unsubscribe", n, ErrNamespaceNotFound, FALSE)
    /\ UNCHANGED <<config, extVars, hubVars, registry, heard, inbox, numCtrl, numForeign, controlReceived,
                   adminPc, pubVars, nodeVars>>

\* Unsubscribe, lines 686-701: the checks and the local unsubscribeUser.
UnsubscribeLocal(n, user, ch) ==
    /\ user # <<>>
    /\ ch # <<>> => CanRLock(n) /\ ChannelOpts(n, ch).ok
    /\ \E o \in unsubscribeUserOutcomes(n, user, ch) :
         /\ unsubscribeUser(n, o)
         /\ IF o.err = ErrNil
            THEN /\ adminPc' = [adminPc EXCEPT ![n] =
                        [op |-> "Unsubscribe", user |-> user, ch |-> ch, hit |-> Hit(n, o.done)]]
                 /\ last' = last
            ELSE /\ adminPc' = adminPc
                 /\ last' = Ret("Unsubscribe", n, ErrInternalServerError, FALSE)
    /\ UNCHANGED <<hubConns, closing, call, numSubscribe, numFirst>>
    /\ UNCHANGED <<config, extVars, registry, heard, inbox, numCtrl, numForeign, controlReceived>>
    /\ UNCHANGED <<pubVars, nodeVars>>

Unsubscribe(n, user, ch) ==
    /\ adminPc[n] = Idle
    /\ numAdmin < MaxAdmin
    /\ numAdmin' = numAdmin + 1
    /\ \/ UnsubscribeBadRequest(n, user, ch)
       \/ UnsubscribeNamespaceNotFound(n, user, ch)
       \/ UnsubscribeLocal(n, user, ch)

UnsubscribePublishUndo(n) ==
    /\ adminPc[n].op = "Unsubscribe"
    /\ adminPc' = [adminPc EXCEPT ![n] = Idle]
    /\ \/ /\ Deliver(pubUnsubscribe(n, adminPc[n].user, adminPc[n].ch))
          /\ last' = Ret("Unsubscribe", n, ErrNil, adminPc[n].hit)
          /\ hubSubs' = hubSubs
       \/ /\ last' = Ret("Unsubscribe", n, ErrInternalServerError, adminPc[n].hit)
          /\ hubSubs' = [hubSubs EXCEPT ![n] = [x \in SubChannels |->
                 IF x = adminPc[n].ch THEN @[x] \cup UserConnections(n, adminPc[n].user)
                 ELSE @[x]]]
          /\ UNCHANGED <<inbox, numCtrl>>
    /\ UNCHANGED <<hubConns, closing, call, engineSubs, numSubscribe, numUnsubscribe,
                   numFirst, numEmpty>>
    /\ UNCHANGED <<config, extVars, registry, heard, numAdmin, numForeign, controlReceived>>
    /\ UNCHANGED <<pubVars, nodeVars>>

\* Unsubscribe, lines 703-707: pubUnsubscribe, whose publish succeeds or fails.
UnsubscribePublish(n) ==
    /\ adminPc[n].op = "Unsubscribe"
    /\ adminPc' = [adminPc EXCEPT ![n] = Idle]
    /\ \/ /\ Deliver(pubUnsubscribe(n, adminPc[n].user, adminPc[n].ch))
          /\ last' = Ret("Unsubscribe", n, ErrNil, adminPc[n].hit)
       \/ /\ last' = Ret("Unsubscribe", n, ErrInternalServerError, adminPc[n].hit)
          /\ UNCHANGED <<inbox, numCtrl>>
    /\ UNCHANGED <<config, extVars, hubVars, registry, heard, numAdmin, numForeign, controlReceived>>
    /\ UNCHANGED <<pubVars, nodeVars>>

\* ------------------------------------------------------------ Disconnect
\* The command pubDisconnect builds: a Disconnect payload under Method "unsubscribe".
pubDisconnect(n, user, reconnect) ==
    [uid |-> n, method |-> "unsubscribe",
     params |-> EncodeDisconnect([User |-> user]),
     src |-> [op |-> "Disconnect", user |-> user, ch |-> <<>>]]

DisconnectBadRequest(n, user, reconnect) ==
    /\ user = <<>>
    /\ last' = Ret("Disconnect", n, ErrBadRequest, FALSE)
    /\ UNCHANGED <<config, extVars, hubVars, registry, heard, inbox, numCtrl, numForeign, controlReceived,
                   adminPc, pubVars, nodeVars>>

\* Disconnect, lines 736-744: the check and the local disconnectUser.
DisconnectLocal(n, user, reconnect) ==
    /\ user # <<>>
    /\ disconnectUser(n, user)
    /\ adminPc' = [adminPc EXCEPT ![n] =
           [op |-> "Disconnect", user |-> user, ch |-> <<>>,
            hit |-> UserConnections(n, user) # {}, reconnect |-> reconnect]]
    /\ UNCHANGED <<hubConns, hubSubs, call, engineSubs, numSubscribe, numUnsubscribe,
                   numFirst, numEmpty>>
    /\ UNCHANGED <<config, extVars, registry, heard, inbox, numCtrl, numForeign, controlReceived>>
    /\ UNCHANGED <<pubVars, last, nodeVars>>

Disconnect(n, user, reconnect) ==
    /\ adminPc[n] = Idle
    /\ numAdmin < MaxAdmin
    /\ numAdmin' = numAdmin + 1
    /\ \/ DisconnectBadRequest(n, user, reconnect)
       \/ DisconnectLocal(n, user, reconnect)

\* Disconnect, lines 746-750: pubDisconnect, whose publish succeeds or fails.
DisconnectPublish(n) ==
    /\ adminPc[n].op = "Disconnect"
    /\ adminPc' = [adminPc EXCEPT ![n] = Idle]
    /\ \/ /\ Deliver(pubDisconnect(n, adminPc[n].user, adminPc[n].reconnect))
          /\ last' = Ret("Disconnect", n, ErrNil, adminPc[n].hit)
       \/ /\ last' = Ret("Disconnect", n, ErrInternalServerError, adminPc[n].hit)
          /\ UNCHANGED <<inbox, numCtrl>>
    /\ UNCHANGED <<config, extVars, hubVars, registry, heard, numAdmin, numForeign, controlReceived>>
    /\ UNCHANGED <<pubVars, nodeVars>>

\* ------------------------------------------- HandlePublication / Join / Leave
\* hub.NumSubscribers(ch)
NumSubscribers(n, ch) == IF ch \in SubChannels THEN Cardinality(hubSubs[n][ch]) ELSE 0

\* hub.Broadcast*(ch, msg) where the sends to the subscribers in failed
\* returned an error: the errors are logged and the caller gets nil.
HubBroadcast(n, ch, failed) == ErrNil

HandlePublicationFailing(n, ch) ==
    /\ IF ~(NumSubscribers(n, ch) > 0)
       THEN /\ last' = Ret("HandlePublication", n, ErrNil, FALSE)
            /\ broadcasts' = broadcasts
       ELSE /\ broadcasts[n] < MaxBroadcast
            /\ broadcasts' = [broadcasts EXCEPT ![n] = @ + 1]
            /\ \E failed \in SUBSET hubSubs[n][ch] :
                 last' = Ret("HandlePublication", n,
                             IF failed # {} THEN ErrClient ELSE ErrNil, failed # {})
    /\ UNCHANGED <<config, now, parseVars, hubLockedWith, carried, hubMu, hubVars, ctrlVars, pubVars,
                   nodeVars>>

\* HandlePublication: the counter, the subscriber check, and the return of
\* the hub's broadcast.
HandlePublication(n, ch) ==
    /\ IF ~(NumSubscribers(n, ch) > 0)
       THEN /\ last' = Ret("HandlePublication", n, ErrNil, FALSE)
            /\ broadcasts' = broadcasts
       ELSE /\ broadcasts[n] < MaxBroadcast
            /\ broadcasts' = [broadcasts EXCEPT ![n] = @ + 1]
            /\ \E failed \in SUBSET hubSubs[n][ch] :
                 last' = Ret("HandlePublication", n, HubBroadcast(n, ch, failed), failed # {})
    /\ UNCHANGED <<config, now, parseVars, hubLockedWith, carried, hubMu, hubVars, ctrlVars, pubVars,
                   nodeVars>>

\* HandleJoin
HandleJoin(n, ch) ==
    /\ IF ~(NumSubscribers(n, ch) > 0)
       THEN /\ last' = Ret("HandleJoin", n, ErrNil, FALSE)
            /\ broadcasts' = broadcasts
       ELSE /\ broadcasts[n] < MaxBroadcast
            /\ broadcasts' = [broadcasts EXCEPT ![n] = @ + 1]
            /\ \E failed \in SUBSET hubSubs[n][ch] :
                 last' = Ret("HandleJoin", n, HubBroadcast(n, ch, failed), failed # {})
    /\ UNCHANGED <<config, now, parseVars, hubLockedWith, carried, hubMu, hubVars, ctrlVars, pubVars,
                   nodeVars>>

\* HandleLeave
HandleLeave(n, ch) ==
    /\ IF ~(NumSubscribers(n, ch) > 0)
       THEN /\ last' = Ret("HandleLeave", n, ErrNil, FALSE)
            /\ broadcasts' = broadcasts
       ELSE /\ broadcasts[n] < MaxBroadcast
            /\ broadcasts' = [broadcasts EXCEPT ![n] = @ + 1]
            /\ \E failed \in SUBSET hubSubs[n][ch] :
                 last' = Ret("HandleLeave", n, HubBroadcast(n, ch, failed), failed # {})
    /\ UNCHANGED <<config, now, parseVars, hubLockedWith, carried, hubMu, hubVars, ctrlVars, pubVars,
                   nodeVars>>

\* ------------------------------------------------------------ HandleControl
\* nodeCmd: n.nodes.add(node), which records the time of the addition.
nodeCmd(n, node) ==
    /\ registry' = [registry EXCEPT ![n] = @ \cup {node.UID}]
    /\ heard' = [heard EXCEPT ![n][node.UID] = now]

ControlRouteNoSelfCheck(n, cmd) ==
    IF cmd.method \notin {"node", "unsubscribe", "disconnect"} THEN "unknown"
    ELSE IF ~DecodeOk(cmd.params) THEN "undecodable"
    ELSE cmd.method

ControlRouteIgnoreDecodeError(n, cmd) ==
    IF cmd.uid = n THEN "self"
    ELSE IF cmd.method \notin {"node", "unsubscribe", "disconnect"} THEN "unknown"
    ELSE cmd.method

\* The branch HandleControl takes for a command.
ControlRoute(n, cmd) ==
    IF cmd.uid = n THEN "self"
    ELSE IF cmd.method \notin {"node", "unsubscribe", "disconnect"} THEN "unknown"
    ELSE IF ~DecodeOk(cmd.params) THEN "undecodable"
    ELSE cmd.method

\* HandleControl(cmd) on node n: the counter, then the branch for the command.
HandleControlCmd(n, cmd) ==
    LET route == ControlRoute(n, cmd)
        nothing == UNCHANGED <<registry, heard, closing, hubSubs, numEmpty, numUnsubscribe,
                               engineSubs>>
        ret(err, hit) == last' = Ret("HandleControl", n, err, hit)
    IN /\ controlReceived' = [controlReceived EXCEPT ![n] = @ + 1]
       /\ CASE route = "self" -> nothing /\ ret(ErrNil, FALSE)
            [] route = "node" ->
                 /\ nodeCmd(n, DecodeNode(cmd.params))
                 /\ UNCHANGED <<closing, hubSubs, numEmpty, numUnsubscribe, engineSubs>>
                 /\ ret(ErrNil, FALSE)
            [] route = "unsubscribe" ->
                 LET u == DecodeUnsubscribe(cmd.params)
                 IN \E o \in unsubscribeUserOutcomes(n, u.User, u.Channel) :
                      /\ unsubscribeUser(n, o)
                      /\ UNCHANGED <<registry, heard, closing>>
                      /\ ret(o.err, Hit(n, o.done))
            [] route = "disconnect" ->
                 LET d == DecodeDisconnect(cmd.params)
                 IN /\ disconnectUser(n, d.User)
                    /\ UNCHANGED <<registry, heard, hubSubs, numEmpty, numUnsubscribe, engineSubs>>
                    /\ ret(ErrNil, UserConnections(n, d.User) # {})
            [] OTHER -> nothing /\ ret(ErrBadRequest, FALSE)
       /\ UNCHANGED <<hubConns, call, numSubscribe, numFirst>>
       /\ UNCHANGED <<config, extVars, numCtrl, numAdmin, adminPc, pubVars, nodeVars>>

\* The engine hands node n the next control command published by a node.
HandleControl(n) ==
    /\ inbox[n] # <<>>
    /\ inbox' = [inbox EXCEPT ![n] = Tail(@)]
    /\ numForeign' = numForeign
    /\ HandleControlCmd(n, Head(inbox[n]))

\* Control commands that no modelled call published: every method, well-formed
\* or not, under this node's uid or a peer's.
ForeignCmds(n) ==
    {[uid |-> u, method |-> mp[1], params |-> mp[2], src |-> [op |-> "foreign"]] :
       u \in {n, "n3"},
       mp \in {<<"node", EncodeNode([UID |-> "n3", Metrics |-> 0])>>,
               <<"unsubscribe", EncodeUnsubscribe([User |-> <<"u">>, Channel |-> Room])>>,
               <<"disconnect", EncodeDisconnect([User |-> <<"u">>])>>,
               <<"node", BadParams>>,
               <<"unsubscribe", BadParams>>,
               <<"disconnect", BadParams>>,
               <<"bogus", EncodeDisconnect([User |-> <<"u">>])>>,
               <<"bogus", BadParams>>}}

\* The engine hands node n a command from outside the modelled calls.
HandleForeignControl(n, cmd) ==
    /\ numForeign < MaxForeign
    /\ numForeign' = numForeign + 1
    /\ inbox' = inbox
    /\ HandleControlCmd(n, cmd)

\* The engine hands node n the node-info command that peer u published.
PeerNodeInfo(n, u) ==
    /\ numForeign < MaxNodeInfo
    /\ numForeign' = numForeign + 1
    /\ inbox' = inbox
    /\ HandleControlCmd(n, [uid |-> u, method |-> "node",
                            params |-> EncodeNode([UID |-> u, Metrics |-> 0]),
                            src |-> [op |-> "foreign"]])

\* ------------------------------------------------------------ node lifecycle
\* The goroutines of a node: two callers of Shutdown; the caller of Run, which
\* goes on as sendNodePingMsg once Run has spawned it; another goroutine
\* of the package calling pubNode; updateMetrics; cleanNodeInfo; and a
\* client's goroutine calling AddPresence.
ShutdownCallers == {"sd1", "sd2"}
PubNodeCallers == {"ping", "pub"}
Periodic == {"ping", "metrics", "clean"}
Tasks == ShutdownCallers \cup PubNodeCallers \cup Periodic \cup {"presence"}

\* The nodes whose lifecycle is run; the other node receives what they publish.
LiveNodes == {"n1"}

At(n, t, where) == pc[n][t] = where
Goto(n, t, where) == pc' = [pc EXCEPT ![n][t] = where]

\* The locks of node n that task t holds.
Holds(l, n, t) == l[n].w = t \/ t \in l[n].r
Held(n, t) == {k \in {"mu", "metricsMu"} :
                 \/ k = "mu" /\ Holds(mu, n, t)
                 \/ k = "metricsMu" /\ Holds(metricsMu, n, t)}

\* Task t calls hub method op, which takes the hub's lock for the call.
HubCall(n, t, op) ==
    hubLockedWith' = [hubLockedWith EXCEPT ![n] = @ \cup {[op |-> op, held |-> Held(n, t)]}]

\* sync.RWMutex: a writer waiting in Lock (p) keeps new readers out.
RLock(l, n, t) == l[n].w = NoTask /\ l[n].p = {} /\ l' = [l EXCEPT ![n].r = @ \cup {t}]
RUnlock(l, n, t) == l' = [l EXCEPT ![n].r = @ \ {t}]
Lock(l, n, t) ==
    l[n].w = NoTask /\ l[n].r = {} /\ l' = [l EXCEPT ![n].w = t, ![n].p = @ \ {t}]
\* Task t has called l.Lock() and waits.
LockWait(l, n, t) == t \notin l[n].p /\ l[n].w # t /\ l' = [l EXCEPT ![n].p = @ \cup {t}]
Unlock(l, n, t) == l' = [l EXCEPT ![n].w = NoTask]

RunIgnoringEngineError(n) ==
    /\ At(n, "ping", "created")
    /\ CanLock(n)
    /\ \/ Goto(n, "ping", "pubNode") /\ last' = last
       \/ Goto(n, "ping", "pubNode") /\ last' = Ret("Run", n, ErrEngine, FALSE)
    /\ UNCHANGED <<mu, metricsMu, shutdown, closeCount, hubShutdowns, calls,
                   metricsOnceDone, metricsSnapshot, pubMsg, withMetrics>>
    /\ UNCHANGED <<config, extVars, hubVars, ctrlVars, pubVars>>

\* Run, lines 230-236: the engine is stored and started; on success Run goes
\* on to its pubNode call.
Run(n) ==
    /\ At(n, "ping", "created")
    /\ CanLock(n)
    /\ \/ Goto(n, "ping", "pubNode") /\ last' = last
       \/ Goto(n, "ping", "failed") /\ last' = Ret("Run", n, ErrEngine, FALSE)
    /\ UNCHANGED <<mu, metricsMu, shutdown, closeCount, hubShutdowns, calls,
                   metricsOnceDone, metricsSnapshot, pubMsg, withMetrics>>
    /\ UNCHANGED <<config, extVars, hubVars, ctrlVars, pubVars>>

\* pubNode, lines 552-560: n.mu.RLock() and the node message without metrics.
PubNodeRLock(n, t) ==
    /\ At(n, t, "pubNode")
    /\ pc[n]["ping"] \notin {"created", "failed"}
    /\ calls[n][t] < MaxPubNode
    /\ calls' = [calls EXCEPT ![n][t] = @ + 1]
    /\ RLock(mu, n, t)
    /\ pubMsg' = [pubMsg EXCEPT ![n][t] = [UID |-> n, Metrics |-> 0]]
    /\ Goto(n, t, "metricsRLock")
    /\ UNCHANGED <<metricsMu, shutdown, closeCount, hubShutdowns, metricsOnceDone,
                   metricsSnapshot, withMetrics>>
    /\ UNCHANGED <<config, extVars, hubVars, ctrlVars, pubVars, last>>

PubNodeMetricsRLockSkipped(n, t) ==
    /\ At(n, t, "metricsRLock")
    /\ Goto(n, t, "once")
    /\ UNCHANGED <<mu, metricsMu, shutdown, closeCount, hubShutdowns, calls, metricsOnceDone,
                   metricsSnapshot, pubMsg, withMetrics>>
    /\ UNCHANGED <<config, extVars, hubVars, ctrlVars, pubVars, last>>

\* pubNode, line 562: n.metricsMu.RLock()
PubNodeMetricsRLock(n, t) ==
    /\ At(n, t, "metricsRLock")
    /\ RLock(metricsMu, n, t)
    /\ Goto(n, t, "once")
    /\ UNCHANGED <<mu, shutdown, closeCount, hubShutdowns, calls, metricsOnceDone,
                   metricsSnapshot, pubMsg, withMetrics>>
    /\ UNCHANGED <<config, extVars, hubVars, ctrlVars, pubVars, last>>

PubNodeOnceAlways(n, t) ==
    /\ At(n, t, "once")
    /\ metricsOnceDone' = [metricsOnceDone EXCEPT ![n] = TRUE]
    /\ pubMsg' = [pubMsg EXCEPT ![n][t].Metrics = metricsSnapshot[n]]
    /\ withMetrics' = [withMetrics EXCEPT ![n] = @ + 1]
    /\ HubFree(n)
    /\ HubCall(n, t, "NumClients")
    /\ carried' = [carried EXCEPT ![n] = @ \cup {metricsSnapshot[n]}]
    /\ Goto(n, t, "metricsRUnlock")
    /\ UNCHANGED <<mu, metricsMu, shutdown, closeCount, hubShutdowns, calls,
                   metricsSnapshot>>
    /\ UNCHANGED <<config, broadcasts, now, parseVars, hubMu, hubVars, ctrlVars, pubVars, last>>

\* pubNode, lines 563-575: n.metricsOnce.Do, the first time it runs since the
\* latch was reset, reads the hub's counts for the gauges, which takes the
\* hub's lock, and copies the snapshot into the message.
PubNodeOnce(n, t) ==
    /\ At(n, t, "once")
    /\ IF metricsOnceDone[n]
       THEN UNCHANGED <<metricsOnceDone, pubMsg, withMetrics, hubLockedWith, carried>>
       ELSE /\ metricsOnceDone' = [metricsOnceDone EXCEPT ![n] = TRUE]
            /\ pubMsg' = [pubMsg EXCEPT ![n][t].Metrics = metricsSnapshot[n]]
            /\ withMetrics' = [withMetrics EXCEPT ![n] = @ + 1]
            /\ HubFree(n)
            /\ HubCall(n, t, "NumClients")
            /\ carried' = [carried EXCEPT ![n] = @ \cup {metricsSnapshot[n]}]
    /\ Goto(n, t, "metricsRUnlock")
    /\ UNCHANGED <<mu, metricsMu, shutdown, closeCount, hubShutdowns, calls,
                   metricsSnapshot>>
    /\ UNCHANGED <<config, broadcasts, now, parseVars, hubMu, hubVars, ctrlVars, pubVars, last>>

\* pubNode, line 576: n.metricsMu.RUnlock()
PubNodeMetricsRUnlock(n, t) ==
    /\ At(n, t, "metricsRUnlock")
    /\ RUnlock(metricsMu, n, t)
    /\ Goto(n, t, "rUnlock")
    /\ UNCHANGED <<mu, shutdown, closeCount, hubShutdowns, calls, metricsOnceDone,
                   metricsSnapshot, pubMsg, withMetrics>>
    /\ UNCHANGED <<config, extVars, hubVars, ctrlVars, pubVars, last>>

PubNodeRUnlockSkipped(n, t) ==
    /\ At(n, t, "rUnlock")
    /\ Goto(n, t, "nodeCmd")
    /\ UNCHANGED <<mu, metricsMu, shutdown, closeCount, hubShutdowns, calls, metricsOnceDone,
                   metricsSnapshot, pubMsg, withMetrics>>
    /\ UNCHANGED <<config, extVars, hubVars, ctrlVars, pubVars, last>>

\* pubNode, line 578: n.mu.RUnlock()
PubNodeRUnlock(n, t) ==
    /\ At(n, t, "rUnlock")
    /\ RUnlock(mu, n, t)
    /\ Goto(n, t, "nodeCmd")
    /\ UNCHANGED <<metricsMu, shutdown, closeCount, hubShutdowns, calls, metricsOnceDone,
                   metricsSnapshot, pubMsg, withMetrics>>
    /\ UNCHANGED <<config, extVars, hubVars, ctrlVars, pubVars, last>>

PubNodeNodeCmdSkipped(n, t) ==
    /\ At(n, t, "nodeCmd")
    /\ Goto(n, t, "publish")
    /\ UNCHANGED <<mu, metricsMu, shutdown, closeCount, hubShutdowns, calls,
                   metricsOnceDone, metricsSnapshot, pubMsg, withMetrics>>
    /\ UNCHANGED <<config, extVars, hubVars, ctrlVars, pubVars, last>>

\* Info, line 335: n.nodes.list(), projected to the uids.
Info(n) == registry[n]

\* pubNode, lines 580-591: the message is encoded and applied to the node's
\* own registry.
PubNodeNodeCmd(n, t) ==
    /\ At(n, t, "nodeCmd")
    /\ nodeCmd(n, DecodeNode(EncodeNode(pubMsg[n][t])))
    /\ Goto(n, t, "publish")
    /\ UNCHANGED <<mu, metricsMu, shutdown, closeCount, hubShutdowns, calls,
                   metricsOnceDone, metricsSnapshot, pubMsg, withMetrics>>
    /\ UNCHANGED <<inbox, numCtrl, numAdmin, numForeign, controlReceived, adminPc>>
    /\ UNCHANGED <<config, extVars, hubVars, pubVars, last>>

\* pubNode, line 593: the control publish succeeds or fails; pubNode returns
\* to Run, to sendNodePingMsg, or to the other caller.
PubNodePublish(n, t) ==
    /\ At(n, t, "publish")
    /\ \/ /\ Deliver([uid |-> n, method |-> "node", params |-> EncodeNode(pubMsg[n][t]),
                      src |-> [op |-> "pubNode"]])
          /\ last' = Ret("pubNode", n, ErrNil, pubMsg[n][t].Metrics # 0)
       \/ /\ last' = Ret("pubNode", n, ErrEngine, pubMsg[n][t].Metrics # 0)
          /\ UNCHANGED <<inbox, numCtrl>>
    /\ Goto(n, t, IF t = "pub" THEN "pubNode"
                  ELSE IF pc[n]["metrics"] = "created" THEN "spawn" ELSE "select")
    /\ UNCHANGED <<mu, metricsMu, shutdown, closeCount, hubShutdowns, calls,
                   metricsOnceDone, metricsSnapshot, pubMsg, withMetrics>>
    /\ UNCHANGED <<registry, heard, numAdmin, numForeign, controlReceived, adminPc>>
    /\ UNCHANGED <<config, extVars, hubVars, pubVars>>

\* Run, lines 239-246: whatever pubNode returned, the three periodic
\* goroutines are started and Run returns nil.
RunSpawn(n) ==
    /\ At(n, "ping", "spawn")
    /\ pc' = [pc EXCEPT ![n] = [u \in Tasks |-> IF u \in Periodic THEN "select" ELSE pc[n][u]]]
    /\ last' = Ret("Run", n, ErrNil, FALSE)
    /\ UNCHANGED <<mu, metricsMu, shutdown, closeCount, hubShutdowns, calls,
                   metricsOnceDone, metricsSnapshot, pubMsg, withMetrics>>
    /\ UNCHANGED <<config, extVars, hubVars, ctrlVars, pubVars>>

PingSelectIgnoringShutdown(n) ==
    /\ At(n, "ping", "select")
    /\ CanRLock(n)
    /\ calls[n]["ping"] < MaxPubNode /\ Goto(n, "ping", "pubNode")
    /\ UNCHANGED <<mu, metricsMu, shutdown, closeCount, hubShutdowns, calls,
                   metricsOnceDone, metricsSnapshot, pubMsg, withMetrics>>
    /\ UNCHANGED <<config, extVars, hubVars, ctrlVars, pubVars, last>>

\* sendNodePingMsg, lines 296-303: the interval is read under the read lock,
\* then the select returns on the closed shutdownCh or calls pubNode on the timer.
PingSelect(n) ==
    /\ At(n, "ping", "select")
    /\ CanRLock(n)
    /\ \/ closeCount[n] > 0 /\ Goto(n, "ping", "stopped")
       \/ calls[n]["ping"] < MaxPubNode /\ Goto(n, "ping", "pubNode")
    /\ UNCHANGED <<mu, metricsMu, shutdown, closeCount, hubShutdowns, calls,
                   metricsOnceDone, metricsSnapshot, pubMsg, withMetrics>>
    /\ UNCHANGED <<config, extVars, hubVars, ctrlVars, pubVars, last>>

\* updateMetrics, lines 282-289, and updateMetricsOnce up to line 272: the
\* select returns on the closed shutdownCh, or on the timer the gauges are set
\* and n.metricsMu.Lock() is taken.
MetricsSelect(n) ==
    /\ At(n, "metrics", "select")
    /\ CanRLock(n)
    /\ \/ closeCount[n] > 0 /\ Goto(n, "metrics", "stopped")
       \/ /\ calls[n]["metrics"] < MaxUpdates
          /\ Goto(n, "metrics", "lock")
    /\ UNCHANGED <<mu, metricsMu, shutdown, closeCount, hubShutdowns, calls,
                   metricsOnceDone, metricsSnapshot, pubMsg, withMetrics>>
    /\ UNCHANGED <<config, extVars, hubVars, ctrlVars, pubVars, last>>

\* cleanNodeInfo, lines 313-319: the interval is read under the read lock,
\* then the select returns on the closed shutdownCh or goes on on the timer.
CleanSelect(n) ==
    /\ At(n, "clean", "select")
    /\ CanRLock(n)
    /\ \/ closeCount[n] > 0 /\ Goto(n, "clean", "stopped")
       \/ calls[n]["clean"] < MaxCleans /\ Goto(n, "clean", "clean")
    /\ UNCHANGED <<mu, metricsMu, shutdown, closeCount, hubShutdowns, calls,
                   metricsOnceDone, metricsSnapshot, pubMsg, withMetrics>>
    /\ UNCHANGED <<config, extVars, hubVars, ctrlVars, pubVars, last>>

\* n.config.NodeInfoMaxDelay, in seconds.
NodeInfoMaxDelay == 1

\* nodeRegistry.clean(delay) at time t: the uids that stay, the registry's own
\* among them.
CleanKeepsFresher(n, nodes, hd, t, delay) ==
    {u \in nodes : u = <<n>> \/ ~(hd[u] < t - delay - 1)}

Clean(n, nodes, hd, t, delay) == {u \in nodes : u = <<n>> \/ ~(hd[u] < t - delay)}

\* cleanNodeInfo, lines 320-323: the delay is read under the read lock and the
\* registry is cleaned.
CleanNodeInfo(n) ==
    /\ At(n, "clean", "clean")
    /\ CanRLock(n)
    /\ calls' = [calls EXCEPT ![n]["clean"] = @ + 1]
    /\ LET kept == Clean(n, registry[n], heard[n], now, NodeInfoMaxDelay)
       IN /\ registry' = [registry EXCEPT ![n] = kept]
          /\ heard' = [heard EXCEPT ![n] = [u \in UIDs |-> IF u \in kept THEN heard[n][u] ELSE 0]]
    /\ Goto(n, "clean", "select")
    /\ UNCHANGED <<mu, metricsMu, shutdown, closeCount, hubShutdowns,
                   metricsOnceDone, metricsSnapshot, pubMsg, withMetrics>>
    /\ UNCHANGED <<inbox, numCtrl, numAdmin, numForeign, controlReceived, adminPc>>
    /\ UNCHANGED <<config, extVars, hubVars, pubVars, last>>

\* AddPresence, line 784: n.mu.RLock()
AddPresenceRLock(n) ==
    /\ At(n, "presence", "idle")
    /\ RLock(mu, n, "presence")
    /\ Goto(n, "presence", "presenceRUnlock")
    /\ UNCHANGED <<metricsMu, shutdown, closeCount, hubShutdowns, calls, metricsOnceDone,
                   metricsSnapshot, pubMsg, withMetrics>>
    /\ UNCHANGED <<config, extVars, hubVars, ctrlVars, pubVars, last>>

\* AddPresence, lines 785-786: the expire interval is read and the lock released.
AddPresenceRUnlock(n) ==
    /\ At(n, "presence", "presenceRUnlock")
    /\ RUnlock(mu, n, "presence")
    /\ Goto(n, "presence", "presenceEngine")
    /\ UNCHANGED <<metricsMu, shutdown, closeCount, hubShutdowns, calls, metricsOnceDone,
                   metricsSnapshot, pubMsg, withMetrics>>
    /\ UNCHANGED <<config, extVars, hubVars, ctrlVars, pubVars, last>>

\* AddPresence, line 788: return n.engine.AddPresence(ch, uid, info, expire)
AddPresenceEngine(n) ==
    /\ At(n, "presence", "presenceEngine")
    /\ \E err \in {ErrNil, ErrEngine} : last' = Ret("AddPresence", n, err, FALSE)
    /\ Goto(n, "presence", "idle")
    /\ UNCHANGED <<mu, metricsMu, shutdown, closeCount, hubShutdowns, calls,
                   metricsOnceDone, metricsSnapshot, pubMsg, withMetrics>>
    /\ UNCHANGED <<config, extVars, hubVars, ctrlVars, pubVars>>

\* A second passes.
Tick ==
    /\ now < MaxTime
    /\ now' = now + 1
    /\ UNCHANGED <<broadcasts, parseVars, hubLockedWith, carried, hubMu>>
    /\ UNCHANGED <<config, hubVars, ctrlVars, pubVars, last, nodeVars>>

\* updateMetricsOnce, line 272: n.metricsMu.Lock()
updateMetricsOnceLock(n) ==
    /\ At(n, "metrics", "lock")
    /\ Lock(metricsMu, n, "metrics")
    /\ calls' = [calls EXCEPT ![n]["metrics"] = @ + 1]
    /\ Goto(n, "metrics", "snapshot")
    /\ UNCHANGED <<mu, shutdown, closeCount, hubShutdowns, metricsOnceDone,
                   metricsSnapshot, pubMsg, withMetrics>>
    /\ UNCHANGED <<config, extVars, hubVars, ctrlVars, pubVars, last>>

\* updateMetricsOnce if it took the node lock as a reader while holding the
\* metrics lock: the lock order of pubNode reversed.
updateMetricsOnceSnapshotUnderNodeLock(n) ==
    /\ At(n, "metrics", "snapshot")
    /\ CanRLock(n)
    /\ metricsSnapshot' = [metricsSnapshot EXCEPT ![n] = @ + 1]
    /\ Goto(n, "metrics", "reset")
    /\ UNCHANGED <<mu, metricsMu, shutdown, closeCount, hubShutdowns, calls,
                   metricsOnceDone, pubMsg, withMetrics>>
    /\ UNCHANGED <<config, extVars, hubVars, ctrlVars, pubVars, last>>

\* updateMetricsOnce, lines 273-274: the counters rotate and a new snapshot is stored.
updateMetricsOnceSnapshot(n) ==
    /\ At(n, "metrics", "snapshot")
    /\ metricsSnapshot' = [metricsSnapshot EXCEPT ![n] = @ + 1]
    /\ Goto(n, "metrics", "reset")
    /\ UNCHANGED <<mu, metricsMu, shutdown, closeCount, hubShutdowns, calls,
                   metricsOnceDone, pubMsg, withMetrics>>
    /\ UNCHANGED <<config, extVars, hubVars, ctrlVars, pubVars, last>>

\* updateMetricsOnce, line 275: n.metricsOnce = sync.Once{}
updateMetricsOnceReset(n) ==
    /\ At(n, "metrics", "reset")
    /\ metricsOnceDone' = [metricsOnceDone EXCEPT ![n] = FALSE]
    /\ Goto(n, "metrics", "unlock")
    /\ UNCHANGED <<mu, metricsMu, shutdown, closeCount, hubShutdowns, calls,
                   metricsSnapshot, pubMsg, withMetrics>>
    /\ UNCHANGED <<config, extVars, hubVars, ctrlVars, pubVars, last>>

\* updateMetricsOnce, lines 276-277: the histograms rotate, n.metricsMu.Unlock(),
\* and the call returns: a new window for the messages carrying metrics opens.
updateMetricsOnceUnlock(n) ==
    /\ At(n, "metrics", "unlock")
    /\ Unlock(metricsMu, n, "metrics")
    /\ withMetrics' = [withMetrics EXCEPT ![n] = 0]
    /\ Goto(n, "metrics", "select")
    /\ UNCHANGED <<mu, shutdown, closeCount, hubShutdowns, calls, metricsOnceDone,
                   metricsSnapshot, pubMsg>>
    /\ UNCHANGED <<config, extVars, hubVars, ctrlVars, pubVars, last>>

\* Shutdown, line 251: n.mu.Lock()
ShutdownLock(n, t) ==
    /\ At(n, t, "idle")
    /\ calls[n][t] < MaxShutdownCalls
    /\ calls' = [calls EXCEPT ![n][t] = @ + 1]
    /\ Lock(mu, n, t)
    /\ Goto(n, t, "locked")
    /\ UNCHANGED <<metricsMu, shutdown, closeCount, hubShutdowns, metricsOnceDone,
                   metricsSnapshot, pubMsg, withMetrics>>
    /\ UNCHANGED <<config, extVars, hubVars, ctrlVars, pubVars, last>>

ShutdownFlagUnchecked(n, t) ==
    /\ At(n, t, "locked")
    /\ shutdown' = [shutdown EXCEPT ![n] = TRUE]
    /\ closeCount' = [closeCount EXCEPT ![n] = @ + 1]
    /\ mu' = mu
    /\ last' = last
    /\ Goto(n, t, "unlock")
    /\ UNCHANGED <<metricsMu, hubShutdowns, calls, metricsOnceDone, metricsSnapshot,
                   pubMsg, withMetrics>>
    /\ UNCHANGED <<config, extVars, hubVars, ctrlVars, pubVars>>

\* Shutdown, lines 252-257: with the flag set the call unlocks and returns
\* nil; otherwise it sets the flag and closes shutdownCh.
ShutdownFlag(n, t) ==
    /\ At(n, t, "locked")
    /\ IF shutdown[n]
       THEN /\ Unlock(mu, n, t)
            /\ last' = Ret("Shutdown", n, ErrNil, FALSE)
            /\ Goto(n, t, "idle")
            /\ UNCHANGED <<shutdown, closeCount>>
       ELSE /\ shutdown' = [shutdown EXCEPT ![n] = TRUE]
            /\ closeCount' = [closeCount EXCEPT ![n] = @ + 1]
            /\ mu' = mu
            /\ last' = last
            /\ Goto(n, t, "unlock")
    /\ UNCHANGED <<metricsMu, hubShutdowns, calls, metricsOnceDone, metricsSnapshot,
                   pubMsg, withMetrics>>
    /\ UNCHANGED <<config, extVars, hubVars, ctrlVars, pubVars>>

\* Shutdown, line 258: n.mu.Unlock()
ShutdownUnlock(n, t) ==
    /\ At(n, t, "unlock")
    /\ Unlock(mu, n, t)
    /\ Goto(n, t, "hubShutdown")
    /\ UNCHANGED <<metricsMu, shutdown, closeCount, hubShutdowns, calls, metricsOnceDone,
                   metricsSnapshot, pubMsg, withMetrics>>
    /\ UNCHANGED <<config, extVars, hubVars, ctrlVars, pubVars, last>>

\* Shutdown, line 259: return n.hub.Shutdown(), which closes every client,
\* emptying the hub's indices, and returns when the hub has drained.
ShutdownHub(n, t) ==
    /\ At(n, t, "hubShutdown")
    /\ hubShutdowns' = [hubShutdowns EXCEPT ![n] = @ + 1]
    /\ hubConns' = [hubConns EXCEPT ![n] = {}]
    /\ RemovePairs(n, {<<c, ch>> : c \in hubConns[n], ch \in SubChannels})
    /\ closing' = {c \in closing : ClientNode(c) # n}
    /\ last' = Ret("Shutdown", n, ErrNil, hubConns[n] # {})
    /\ HubCall(n, t, "Shutdown")
    /\ hubMu[n].w = NoTask /\ hubMu[n].r = {}
    /\ hubMu' = [hubMu EXCEPT ![n].p = @ \ {t}]
    /\ Goto(n, t, "idle")
    /\ UNCHANGED <<mu, metricsMu, shutdown, closeCount, calls, metricsOnceDone,
                   metricsSnapshot, pubMsg, withMetrics>>
    /\ UNCHANGED <<call, numSubscribe, numFirst>>
    /\ UNCHANGED <<config, broadcasts, now, parseVars, carried, ctrlVars, pubVars>>

\* Shutdown, line 251: the caller is blocked in n.mu.Lock().
ShutdownWait(n, t) ==
    /\ At(n, t, "idle")
    /\ calls[n][t] < MaxShutdownCalls
    /\ LockWait(mu, n, t)
    /\ UNCHANGED <<metricsMu, shutdown, closeCount, hubShutdowns, pc, calls,
                   metricsOnceDone, metricsSnapshot, pubMsg, withMetrics>>
    /\ UNCHANGED <<config, extVars, hubVars, ctrlVars, pubVars, last>>

\* updateMetricsOnce, line 272: the task is blocked in n.metricsMu.Lock().
updateMetricsOnceWait(n) ==
    /\ At(n, "metrics", "lock")
    /\ LockWait(metricsMu, n, "metrics")
    /\ UNCHANGED <<mu, shutdown, closeCount, hubShutdowns, pc, calls,
                   metricsOnceDone, metricsSnapshot, pubMsg, withMetrics>>
    /\ UNCHANGED <<config, extVars, hubVars, ctrlVars, pubVars, last>>

\* Shutdown, line 259: the caller is blocked in the hub's lock.
ShutdownHubWait(n, t) ==
    /\ At(n, t, "hubShutdown")
    /\ LockWait(hubMu, n, t)
    /\ UNCHANGED <<config, broadcasts, now, parseVars, hubLockedWith, carried>>
    /\ UNCHANGED <<hubVars, ctrlVars, pubVars, last, nodeVars>>

\* ------------------------------------------------------------ specification

\* The hubs and the engine after New: no connection, no subscription.
InitHub ==
    /\ hubConns = [n \in Nodes |-> {}]
    /\ hubSubs = [n \in Nodes |-> [ch \in SubChannels |-> {}]]
    /\ closing = {}
    /\ call = [c \in Clients |-> Idle]
    /\ engineSubs = [n \in Nodes |-> {}]
    /\ numSubscribe = [n \in Nodes |-> [ch \in SubChannels |-> 0]]
    /\ numUnsubscribe = [n \in Nodes |-> [ch \in SubChannels |-> 0]]
    /\ numFirst = [n \in Nodes |-> [ch \in SubChannels |-> 0]]
    /\ numEmpty = [n \in Nodes |-> [ch \in SubChannels |-> 0]]

\* The hubs and the engine once every client has connected and the clients of
\* user u (and possibly the other client) have subscribed to every channel,
\* each channel's first subscription having reached the engine.
InitHubPopulated ==
    /\ hubConns = [n \in Nodes |-> {c \in Clients : ClientNode(c) = n}]
    /\ \E chans \in {f \in [Clients -> {{}, SubChannels}] :
                       \A c \in Clients : ClientUser(c) = <<"u">> => f[c] = SubChannels} :
         hubSubs = [n \in Nodes |-> [ch \in SubChannels |->
                        {c \in Clients : ClientNode(c) = n /\ ch \in chans[c]}]]
    /\ closing = {}
    /\ call = [c \in Clients |-> Idle]
    /\ engineSubs = [n \in Nodes |-> {ch \in SubChannels : hubSubs[n][ch] # {}}]
    /\ numSubscribe = [n \in Nodes |-> [ch \in SubChannels |->
                          IF hubSubs[n][ch] # {} THEN 1 ELSE 0]]
    /\ numUnsubscribe = [n \in Nodes |-> [ch \in SubChannels |-> 0]]
    /\ numFirst = numSubscribe
    /\ numEmpty = [n \in Nodes |-> [ch \in SubChannels |-> 0]]

InitRest ==
    /\ config \in [Nodes -> {CfgNs}]
    /\ heard = [n \in Nodes |-> [u \in UIDs |-> 0]]
    /\ now = 0
    /\ inbox = [n \in Nodes |-> <<>>]
    /\ numCtrl = 0
    /\ numAdmin = 0
    /\ numForeign = 0
    /\ controlReceived = [n \in Nodes |-> 0]
    /\ adminPc = [n \in Nodes |-> Idle]
    /\ enginePubs = 0
    /\ pub = [UID |-> ""]
    /\ last = Ret("New", "n1", ErrNil, FALSE)
    /\ broadcasts = [n \in Nodes |-> 0]
    /\ hubLockedWith = [n \in Nodes |-> {}]
    /\ carried = [n \in Nodes |-> {}]
    /\ mu = [n \in Nodes |-> [w |-> NoTask, r |-> {}, p |-> {}]]
    /\ metricsMu = [n \in Nodes |-> [w |-> NoTask, r |-> {}, p |-> {}]]
    /\ hubMu = [n \in Nodes |-> [w |-> NoTask, r |-> {}, p |-> {}]]
    /\ shutdown = [n \in Nodes |-> FALSE]
    /\ closeCount = [n \in Nodes |-> 0]
    /\ hubShutdowns = [n \in Nodes |-> 0]
    /\ pc = [n \in Nodes |-> [t \in Tasks |->
                IF t \in ShutdownCallers \cup {"presence"} THEN "idle"
                ELSE IF t = "pub" THEN "pubNode" ELSE "created"]]
    /\ calls = [n \in Nodes |-> [t \in Tasks |-> 0]]
    /\ metricsOnceDone = [n \in Nodes |-> FALSE]
    /\ metricsSnapshot = [n \in Nodes |-> 1]
    /\ pubMsg = [n \in Nodes |-> [t \in PubNodeCallers |-> [UID |-> n, Metrics |-> 0]]]
    /\ withMetrics = [n \in Nodes |-> 0]

InitNoParse == arg = NoArg /\ res = NoRes

\* New: the node registry is allocated empty.
InitRegistry == registry = [n \in Nodes |-> {}]

\* The registry of a node that has run: its first pubNode has added its own entry.
InitRegistryRun == registry = [n \in Nodes |-> {<<n>>}]

Init == InitHub /\ InitRest /\ InitNoParse /\ InitRegistry

InitPopulated == InitHubPopulated /\ InitRest /\ InitNoParse /\ InitRegistryRun

\* A channel and a user id to parse.
InitParse ==
    /\ InitHub /\ InitRest /\ InitRegistry
    /\ arg \in [ch : ParseChannels, user : ParseUsers]
    /\ res = NoRes

\* Clients connecting, subscribing and unsubscribing concurrently.
NextSub ==
    \/ \E c \in Clients : AddClient(c)
    \/ \E c \in Clients, ch \in SubChannels : AddSubscription(c, ch)
    \/ \E c \in Clients : AddSubscriptionSubscribe(c)
    \/ \E c \in Clients, ch \in SubChannels : RemoveSubscription(c, ch)
    \/ \E c \in Clients : RemoveSubscriptionUnsubscribe(c)

SpecSub == Init /\ [][NextSub]_vars

\* The admin calls and the control plane, over clients that have connected and
\* subscribed.
NextCtl ==
    \/ \E c \in Clients : CloseClient(c)
    \/ \E n \in Nodes, u \in ApiUsers, ch \in ApiChannels : Unsubscribe(n, u, ch)
    \/ \E n \in Nodes : UnsubscribePublish(n)
    \/ \E n \in Nodes, u \in ApiUsers, rc \in BOOLEAN : Disconnect(n, u, rc)
    \/ \E n \in Nodes : DisconnectPublish(n)
    \/ \E n \in Nodes : HandleControl(n)
    \/ \E n \in Nodes : \E cmd \in ForeignCmds(n) : HandleForeignControl(n, cmd)

SpecCtl == InitPopulated /\ [][NextCtl]_vars

\* The publish calls under a config that is reloaded while the node runs.
NextPublish ==
    \/ \E n \in Nodes, c \in Configs : SetConfig(n, c)
    \/ \E n \in Nodes, ch \in PubChannels, uid \in CallerUIDs, optsNil \in BOOLEAN :
         Publish(n, ch, uid, optsNil)
    \/ \E n \in Nodes, ch \in PubChannels, optsNil \in BOOLEAN :
         PublishJoin(n, ch, optsNil)
    \/ \E n \in Nodes, ch \in PubChannels, optsNil \in BOOLEAN :
         PublishLeave(n, ch, optsNil)

SpecPublish == Init /\ [][NextPublish]_vars

\* The messages the engine delivers to a node whose clients come and go.
NextHandle ==
    \/ \E c \in Clients : AddClient(c)
    \/ \E c \in Clients, ch \in SubChannels : AddSubscription(c, ch)
    \/ \E c \in Clients : AddSubscriptionSubscribe(c)
    \/ \E c \in Clients, ch \in SubChannels : RemoveSubscription(c, ch)
    \/ \E c \in Clients : RemoveSubscriptionUnsubscribe(c)
    \/ \E n \in LiveNodes, ch \in PubChannels : HandlePublication(n, ch)
    \/ \E n \in LiveNodes, ch \in PubChannels : HandleJoin(n, ch)
    \/ \E n \in LiveNodes, ch \in PubChannels : HandleLeave(n, ch)

SpecHandle == Init /\ [][NextHandle]_vars

\* The lifecycle of a node: Run, the ping and metrics tasks, concurrent
\* Shutdown calls, and the control commands the engine hands back.
NextNode ==
    \/ \E n \in LiveNodes : Run(n)
    \/ \E n \in LiveNodes : PubNodeRLock(n, "ping")
    \/ \E n \in LiveNodes : PubNodeMetricsRLock(n, "ping")
    \/ \E n \in LiveNodes : PubNodeOnce(n, "ping")
    \/ \E n \in LiveNodes : PubNodeMetricsRUnlock(n, "ping")
    \/ \E n \in LiveNodes : PubNodeRUnlock(n, "ping")
    \/ \E n \in LiveNodes : PubNodeNodeCmd(n, "ping")
    \/ \E n \in LiveNodes : PubNodePublish(n, "ping")
    \/ \E n \in LiveNodes : RunSpawn(n)
    \/ \E n \in LiveNodes : PingSelect(n)
    \/ \E n \in LiveNodes : MetricsSelect(n)
    \/ \E n \in LiveNodes : updateMetricsOnceLock(n)
    \/ \E n \in LiveNodes : updateMetricsOnceSnapshot(n)
    \/ \E n \in LiveNodes : updateMetricsOnceReset(n)
    \/ \E n \in LiveNodes : updateMetricsOnceUnlock(n)
    \/ \E n \in LiveNodes, t \in ShutdownCallers : ShutdownLock(n, t)
    \/ \E n \in LiveNodes, t \in ShutdownCallers : ShutdownFlag(n, t)
    \/ \E n \in LiveNodes, t \in ShutdownCallers : ShutdownUnlock(n, t)
    \/ \E n \in LiveNodes, t \in ShutdownCallers : ShutdownHub(n, t)
    \/ \E n \in Nodes : HandleControl(n)

SpecNode == InitPopulated /\ [][NextNode]_vars

\* The metrics latch: pubNode called by the ping task and by another
\* goroutine, concurrently with updateMetrics.
NextMetrics ==
    \/ \E n \in LiveNodes : Run(n)
    \/ \E n \in LiveNodes, t \in PubNodeCallers : PubNodeRLock(n, t)
    \/ \E n \in LiveNodes, t \in PubNodeCallers : PubNodeMetricsRLock(n, t)
    \/ \E n \in LiveNodes, t \in PubNodeCallers : PubNodeOnce(n, t)
    \/ \E n \in LiveNodes, t \in PubNodeCallers : PubNodeMetricsRUnlock(n, t)
    \/ \E n \in LiveNodes, t \in PubNodeCallers : PubNodeRUnlock(n, t)
    \/ \E n \in LiveNodes, t \in PubNodeCallers : PubNodeNodeCmd(n, t)
    \/ \E n \in LiveNodes, t \in PubNodeCallers : PubNodePublish(n, t)
    \/ \E n \in LiveNodes : RunSpawn(n)
    \/ \E n \in LiveNodes : PingSelect(n)
    \/ \E n \in LiveNodes : MetricsSelect(n)
    \/ \E n \in LiveNodes : updateMetricsOnceLock(n)
    \/ \E n \in LiveNodes : updateMetricsOnceSnapshot(n)
    \/ \E n \in LiveNodes : updateMetricsOnceReset(n)
    \/ \E n \in LiveNodes : updateMetricsOnceUnlock(n)
    \/ \E n \in Nodes : HandleControl(n)

SpecMetrics == Init /\ [][NextMetrics]_vars

\* Run, the three periodic tasks and one Shutdown.
NextRun ==
    \/ \E n \in LiveNodes : Run(n)
    \/ \E n \in LiveNodes : PubNodeRLock(n, "ping")
    \/ \E n \in LiveNodes : PubNodeMetricsRLock(n, "ping")
    \/ \E n \in LiveNodes : PubNodeOnce(n, "ping")
    \/ \E n \in LiveNodes : PubNodeMetricsRUnlock(n, "ping")
    \/ \E n \in LiveNodes : PubNodeRUnlock(n, "ping")
    \/ \E n \in LiveNodes : PubNodeNodeCmd(n, "ping")
    \/ \E n \in LiveNodes : PubNodePublish(n, "ping")
    \/ \E n \in LiveNodes : RunSpawn(n)
    \/ \E n \in LiveNodes : PingSelect(n)
    \/ \E n \in LiveNodes : MetricsSelect(n)
    \/ \E n \in LiveNodes : updateMetricsOnceLock(n)
    \/ \E n \in LiveNodes : updateMetricsOnceSnapshot(n)
    \/ \E n \in LiveNodes : updateMetricsOnceReset(n)
    \/ \E n \in LiveNodes : updateMetricsOnceUnlock(n)
    \/ \E n \in LiveNodes : CleanSelect(n)
    \/ \E n \in LiveNodes : CleanNodeInfo(n)
    \/ \E n \in LiveNodes : ShutdownLock(n, "sd1")
    \/ \E n \in LiveNodes : ShutdownFlag(n, "sd1")
    \/ \E n \in LiveNodes : ShutdownUnlock(n, "sd1")
    \/ \E n \in LiveNodes : ShutdownHub(n, "sd1")

SpecRun == Init /\ [][NextRun]_vars

\* The scheduler runs every goroutine that can take a step, an engine
\* publish in flight returns, and a timer fires a bounded number of times.
FairRun ==
    \A n \in LiveNodes :
        /\ WF_vars(Run(n))
        /\ WF_vars(PubNodeRLock(n, "ping"))
        /\ WF_vars(PubNodeMetricsRLock(n, "ping"))
        /\ WF_vars(PubNodeOnce(n, "ping"))
        /\ WF_vars(PubNodeMetricsRUnlock(n, "ping"))
        /\ WF_vars(PubNodeRUnlock(n, "ping"))
        /\ WF_vars(PubNodeNodeCmd(n, "ping"))
        /\ WF_vars(PubNodePublish(n, "ping"))
        /\ WF_vars(RunSpawn(n))
        /\ WF_vars(PingSelect(n))
        /\ WF_vars(MetricsSelect(n))
        /\ WF_vars(updateMetricsOnceLock(n))
        /\ WF_vars(updateMetricsOnceSnapshot(n))
        /\ WF_vars(updateMetricsOnceReset(n))
        /\ WF_vars(updateMetricsOnceUnlock(n))
        /\ WF_vars(CleanSelect(n))
        /\ WF_vars(CleanNodeInfo(n))
        /\ WF_vars(ShutdownFlag(n, "sd1"))
        /\ WF_vars(ShutdownUnlock(n, "sd1"))
        /\ WF_vars(ShutdownHub(n, "sd1"))

SpecRunFair == Init /\ [][NextRun]_vars /\ FairRun

\* The lifecycle of a node with a client adding presence meanwhile.
NextLocks ==
    \/ NextRun
    \/ \E n \in LiveNodes : AddPresenceRLock(n)
    \/ \E n \in LiveNodes : AddPresenceRUnlock(n)
    \/ \E n \in LiveNodes : AddPresenceEngine(n)

SpecLocks == Init /\ [][NextLocks]_vars

\* The registry of a running node: its own pings, the node-info commands of its
\* peers, the periodic clean, and the clock.
NextClean ==
    \/ \E n \in LiveNodes : Run(n)
    \/ \E n \in LiveNodes : PubNodeRLock(n, "ping")
    \/ \E n \in LiveNodes : PubNodeMetricsRLock(n, "ping")
    \/ \E n \in LiveNodes : PubNodeOnce(n, "ping")
    \/ \E n \in LiveNodes : PubNodeMetricsRUnlock(n, "ping")
    \/ \E n \in LiveNodes : PubNodeRUnlock(n, "ping")
    \/ \E n \in LiveNodes : PubNodeNodeCmd(n, "ping")
    \/ \E n \in LiveNodes : PubNodePublish(n, "ping")
    \/ \E n \in LiveNodes : RunSpawn(n)
    \/ \E n \in LiveNodes : PingSelect(n)
    \/ \E n \in LiveNodes : CleanSelect(n)
    \/ \E n \in LiveNodes : CleanNodeInfo(n)
    \/ \E n \in Nodes : HandleControl(n)
    \/ \E n \in LiveNodes, u \in {"n2", "n3"} : PeerNodeInfo(n, u)
    \/ Tick

SpecClean == Init /\ [][NextClean]_vars

\* The operations that take the node lock, the metrics lock or the hub lock,
\* with writers that wait: Run, the three periodic tasks, Shutdown, SetConfig,
\* Publish with the channel options read under the node lock, the control
\* messages received, and a client that subscribes to and unsubscribes from a
\* channel another client stays subscribed to.
InitDeadlock == InitPopulated /\ "c2" \in hubSubs["n1"][NsRoom]

NextDeadlock ==
    \/ \E n \in LiveNodes : Run(n)
    \/ \E n \in LiveNodes : PubNodeRLock(n, "ping")
    \/ \E n \in LiveNodes : PubNodeMetricsRLock(n, "ping")
    \/ \E n \in LiveNodes : PubNodeOnce(n, "ping")
    \/ \E n \in LiveNodes : PubNodeMetricsRUnlock(n, "ping")
    \/ \E n \in LiveNodes : PubNodeRUnlock(n, "ping")
    \/ \E n \in LiveNodes : PubNodeNodeCmd(n, "ping")
    \/ \E n \in LiveNodes : PubNodePublish(n, "ping")
    \/ \E n \in LiveNodes : RunSpawn(n)
    \/ \E n \in LiveNodes : PingSelect(n)
    \/ \E n \in LiveNodes : MetricsSelect(n)
    \/ \E n \in LiveNodes : updateMetricsOnceWait(n)
    \/ \E n \in LiveNodes : updateMetricsOnceLock(n)
    \/ \E n \in LiveNodes : updateMetricsOnceSnapshot(n)
    \/ \E n \in LiveNodes : updateMetricsOnceReset(n)
    \/ \E n \in LiveNodes : updateMetricsOnceUnlock(n)
    \/ \E n \in LiveNodes : CleanSelect(n)
    \/ \E n \in LiveNodes : CleanNodeInfo(n)
    \/ \E n \in LiveNodes : ShutdownWait(n, "sd1")
    \/ \E n \in LiveNodes : ShutdownLock(n, "sd1")
    \/ \E n \in LiveNodes : ShutdownFlag(n, "sd1")
    \/ \E n \in LiveNodes : ShutdownUnlock(n, "sd1")
    \/ \E n \in LiveNodes : ShutdownHubWait(n, "sd1")
    \/ \E n \in LiveNodes : ShutdownHub(n, "sd1")
    \/ \E n \in LiveNodes, c \in Configs : SetConfig(n, c)
    \/ \E n \in LiveNodes : Publish(n, XRoom, "a", TRUE)
    \/ \E n \in LiveNodes : HandleControl(n)
    \/ AddSubscription("c1", NsRoom)
    \/ RemoveSubscription("c1", NsRoom)

SpecDeadlock == InitDeadlock /\ [][NextDeadlock]_vars

\* The parsing functions applied to the channel and user id drawn at the start.
NextParse ==
    \/ \E n \in Nodes : NamespaceName(n)
    \/ \E n \in Nodes : UserAllowed(n)

SpecParse == InitParse /\ [][NextParse]_vars

Next == NextSub \/ NextCtl \/ NextPublish \/ NextNode \/ NextMetrics \/ NextHandle \/ NextLocks \/ NextClean
        \/ NextDeadlock
        \/ NextParse

Spec == Init /\ [][Next]_vars

\* ============================================================== properties

\* C1: for every node and channel, engine.Subscribe has been invoked, or is
\* about to be invoked by an AddSubscription call in flight, exactly once per
\* transition of the channel's subscriber set from empty to non-empty, and
\* engine.Unsubscribe exactly once per transition from non-empty to empty;
\* a call in flight exists only for such a transition.
InFlight(n, op, ch) ==
    Cardinality({c \in Clients : ClientNode(c) = n /\ call[c] = [op |-> op, ch |-> ch]})

C1Theorem ==
    \A n \in Nodes, ch \in SubChannels :
        /\ numSubscribe[n][ch] + InFlight(n, "Subscribe", ch) = numFirst[n][ch]
        /\ numUnsubscribe[n][ch] + InFlight(n, "Unsubscribe", ch) = numEmpty[n][ch]

\* Room on n1 went empty -> non-empty twice and back once, a second client
\* joined it without an engine call, and every call has returned.
C1Witness ==
    /\ numFirst["n1"][Room] = 2
    /\ numEmpty["n1"][Room] = 1
    /\ numSubscribe["n1"][Room] = 2
    /\ numUnsubscribe["n1"][Room] = 1
    /\ hubSubs["n1"][Room] = {"c1", "c2"}
    /\ \A c \in Clients : call[c] = Idle

\* C4: a HandleControl step on a command carrying the node's own uid, whatever
\* its method, leaves the registry, the hub's subscriptions, the connections
\* and the pending closes unchanged, counts the command as received and
\* returns nil.
SelfCmds(n) ==
    {cmd \in ForeignCmds(n) : cmd.uid = n}
    \cup (IF inbox[n] # <<>> /\ Head(inbox[n]).uid = n THEN {Head(inbox[n])} ELSE {})

C4Theorem ==
    [][\A n \in Nodes : \A cmd \in SelfCmds(n) :
         (\/ HandleForeignControl(n, cmd)
          \/ (inbox[n] # <<>> /\ Head(inbox[n]) = cmd /\ HandleControl(n)))
         => /\ UNCHANGED <<registry, hubSubs, hubConns, closing, engineSubs>>
            /\ controlReceived'[n] = controlReceived[n] + 1
            /\ last'.op = "HandleControl"
            /\ last'.err = ErrNil]_vars

\* n1 has handled the echo of its own "unsubscribe" command, which names no
\* channel, and its client c1 is still subscribed to the other channel.
C4Witness ==
    /\ numForeign = 0
    /\ numCtrl = 1
    /\ controlReceived["n1"] = 1
    /\ inbox["n1"] = <<>>
    /\ inbox["n2"] # <<>>
    /\ Head(inbox["n2"]).uid = "n1"
    /\ Head(inbox["n2"]).src = [op |-> "Unsubscribe", user |-> <<"u">>, ch |-> Room]
    /\ "c1" \in hubSubs["n1"][NsRoom]
    /\ last = Ret("HandleControl", "n1", ErrNil, FALSE)

\* C7: an Unsubscribe(user, ch) call with a channel that returns nil has left
\* none of the user's clients on its node subscribed to ch and publishes
\* exactly one command, with method "unsubscribe", which the engine hands to
\* every node; and when a peer's HandleControl returns nil for that command
\* none of the user's clients on the peer is subscribed to ch.
NotSubscribedAfter(n, user, ch) ==
    \A c \in Clients : (ClientNode(c) = n /\ ClientUser(c) = user) => c \notin hubSubs'[n][ch]

C7Theorem ==
    [][\A n \in Nodes :
         /\ (adminPc[n].op = "Unsubscribe" /\ adminPc[n].ch # <<>> /\ UnsubscribePublish(n)
             /\ last'.err = ErrNil)
            => /\ NotSubscribedAfter(n, adminPc[n].user, adminPc[n].ch)
               /\ numCtrl' = numCtrl + 1
               /\ \A m \in Nodes :
                    /\ Len(inbox'[m]) = Len(inbox[m]) + 1
                    /\ inbox'[m][Len(inbox'[m])].method = "unsubscribe"
                    /\ inbox'[m][Len(inbox'[m])].uid = n
                    /\ DecodeUnsubscribe(inbox'[m][Len(inbox'[m])].params).User
                         = adminPc[n].user
         /\ (inbox[n] # <<>> /\ Head(inbox[n]).src.op = "Unsubscribe"
             /\ Head(inbox[n]).src.ch # <<>> /\ Head(inbox[n]).uid # n
             /\ HandleControl(n) /\ last'.err = ErrNil)
            => NotSubscribedAfter(n, Head(inbox[n]).src.user, Head(inbox[n]).src.ch)]_vars

\* n1.Unsubscribe(u, room) has returned nil after taking c1 out of room, n2
\* has handled the command, which took c3 out of room, and returned nil.
C7Witness ==
    /\ numAdmin = 1
    /\ numCtrl = 1
    /\ numForeign = 0
    /\ adminPc["n1"] = Idle
    /\ inbox["n2"] = <<>>
    /\ inbox["n1"] # <<>>
    /\ Head(inbox["n1"]).src = [op |-> "Unsubscribe", user |-> <<"u">>, ch |-> Room]
    /\ last = Ret("HandleControl", "n2", ErrNil, TRUE)
    /\ "c1" \notin hubSubs["n1"][Room]
    /\ "c3" \notin hubSubs["n2"][Room]
    /\ "c3" \in hubConns["n2"]

\* C8: when a peer handles the control command a Disconnect(user) call
\* published, every connection of that user on the peer is closed or has its
\* close under way.
C8Claim ==
    [][\A n \in Nodes :
         (inbox[n] # <<>> /\ Head(inbox[n]).src.op = "Disconnect"
          /\ Head(inbox[n]).uid # n /\ HandleControl(n))
         => UserConnections(n, Head(inbox[n]).src.user) \subseteq closing']_vars

\* C9: Unsubscribe with an empty user returns BadRequest, and with a user and
\* a non-empty channel whose namespace the config does not resolve returns
\* NamespaceNotFound; either way no subscription, connection or pending close
\* changes and no control command is published.
Unresolvable(n, ch) ==
    LET nk == namespaceName(config[n], ch)
    IN nk # <<>> /\ nk \notin config[n].Namespaces

C9Theorem ==
    [][\A n \in Nodes, u \in ApiUsers, ch \in ApiChannels :
         (Unsubscribe(n, u, ch) /\ (u = <<>> \/ (ch # <<>> /\ Unresolvable(n, ch))))
         => /\ last'.op = "Unsubscribe"
            /\ last'.err = IF u = <<>> THEN ErrBadRequest ELSE ErrNamespaceNotFound
            /\ UNCHANGED <<hubVars, inbox, numCtrl, adminPc>>]_vars

\* Unsubscribe has just returned NamespaceNotFound while user u's clients
\* were subscribed on both nodes.
C9Witness ==
    /\ last = Ret("Unsubscribe", "n1", ErrNamespaceNotFound, FALSE)
    /\ numAdmin = 1
    /\ numCtrl = 0
    /\ "c1" \in hubSubs["n1"][Room]
    /\ "c3" \in hubSubs["n2"][Room]

\* C10: when Unsubscribe or Disconnect reaches its control publish the local
\* step is already in the hub (the user's clients are out of the channel, or
\* their closes are under way); the publish step changes no subscription,
\* connection or pending close, and returns InternalServerError when the
\* publish fails; and in that state running the local step again would
\* change nothing.
LocalStepDone(n) ==
    IF adminPc[n].op = "Unsubscribe"
    THEN \A c \in UserConnections(n, adminPc[n].user) :
           \A x \in SubChannels : (adminPc[n].ch \in {<<>>, x}) => c \notin hubSubs[n][x]
    ELSE \A c \in Clients :
           (ClientNode(c) = n /\ ClientUser(c) = adminPc[n].user)
           => (c \in closing \/ c \notin hubConns[n])

LocalStepAgainNoChange(n) ==
    IF adminPc[n].op = "Unsubscribe"
    THEN ~Hit(n, unsubscribeUserPairs(n, adminPc[n].user, adminPc[n].ch))
    ELSE UserConnections(n, adminPc[n].user) \subseteq closing

C10Theorem ==
    [][\A n \in Nodes :
         (adminPc[n] # Idle /\ (UnsubscribePublish(n) \/ DisconnectPublish(n)))
         => /\ LocalStepDone(n)
            /\ LocalStepAgainNoChange(n)
            /\ UNCHANGED <<hubSubs, hubConns, closing, engineSubs>>
            /\ (numCtrl' = numCtrl) => last'.err = ErrInternalServerError
            /\ (numCtrl' # numCtrl) => last'.err = ErrNil]_vars

\* Unsubscribe(u, room) on n1 took c1 out of room, its publish failed, the call
\* returned InternalServerError and c1 is still out of room.
C10Witness ==
    /\ last = Ret("Unsubscribe", "n1", ErrInternalServerError, TRUE)
    /\ numAdmin = 1
    /\ numCtrl = 0
    /\ numForeign = 0
    /\ "c1" \in hubConns["n1"]
    /\ "c1" \notin hubSubs["n1"][Room]
    /\ "c1" \in hubSubs["n1"][NsRoom]

\* C2 as stated: after any Publish call pub.UID is non-empty, and a non-empty
\* UID the caller supplied is unchanged.
C2Claim ==
    [][\A n \in Nodes, ch \in PubChannels, uid \in CallerUIDs, optsNil \in BOOLEAN :
         Publish(n, ch, uid, optsNil)
         => (pub'.UID # "" /\ (uid # "" => pub'.UID = uid))]_vars

\* C2 amended: after a Publish call that did not return NamespaceNotFound
\* (opts given, or the namespace resolved) pub.UID is non-empty; after every
\* Publish call a non-empty UID the caller supplied is unchanged; a call that
\* returns NamespaceNotFound leaves pub.UID as it was passed.
C2Theorem ==
    [][\A n \in Nodes, ch \in PubChannels, uid \in CallerUIDs, optsNil \in BOOLEAN :
         Publish(n, ch, uid, optsNil)
         => /\ ~(optsNil /\ Unresolvable(n, ch)) => pub'.UID # ""
            /\ uid # "" => pub'.UID = uid
            /\ (optsNil /\ Unresolvable(n, ch)) => pub'.UID = uid]_vars

\* A Publish call was handed an empty UID and reached the engine with a
\* generated one.
C2Witness ==
    /\ last = Ret("Publish", "n1", ErrNil, FALSE)
    /\ pub.UID \in GenUIDs
    /\ enginePubs = 1

\* C3: with opts nil and a channel whose namespace the current config does
\* not resolve, Publish, PublishJoin and PublishLeave return a future holding
\* NamespaceNotFound and make no engine publish call.
C3Theorem ==
    [][\A n \in Nodes, ch \in PubChannels :
         Unresolvable(n, ch)
         => /\ \A uid \in CallerUIDs :
                 Publish(n, ch, uid, TRUE)
                 => (last' = Ret("Publish", n, ErrNamespaceNotFound, FALSE)
                     /\ enginePubs' = enginePubs)
            /\ PublishJoin(n, ch, TRUE)
                 => (last' = Ret("PublishJoin", n, ErrNamespaceNotFound, FALSE)
                     /\ enginePubs' = enginePubs)
            /\ PublishLeave(n, ch, TRUE)
                 => (last' = Ret("PublishLeave", n, ErrNamespaceNotFound, FALSE)
                     /\ enginePubs' = enginePubs)]_vars

\* After the namespace was removed from n1's config, PublishLeave on a channel
\* of that namespace returned NamespaceNotFound and the engine saw no publish.
C3Witness ==
    /\ config["n1"] = CfgPlain
    /\ config["n2"] = CfgNs
    /\ last = Ret("PublishLeave", "n1", ErrNamespaceNotFound, FALSE)
    /\ enginePubs = 0

\* C5: however many Shutdown calls are made, one after another or
\* concurrently, shutdownCh is closed at most once and hub.Shutdown is invoked
\* at most once, and exactly once each when every call has returned; a call
\* that finds the flag set returns nil and changes nothing but its own lock.
AllReturned(n) ==
    /\ \A t \in ShutdownCallers : pc[n][t] = "idle"
    /\ \E t \in ShutdownCallers : calls[n][t] > 0

C5Theorem ==
    /\ [](\A n \in LiveNodes :
            /\ closeCount[n] <= 1
            /\ hubShutdowns[n] <= 1
            /\ AllReturned(n) => (closeCount[n] = 1 /\ hubShutdowns[n] = 1))
    /\ [][\A n \in LiveNodes, t \in ShutdownCallers :
            (shutdown[n] /\ ShutdownFlag(n, t))
            => /\ last' = Ret("Shutdown", n, ErrNil, FALSE)
               /\ pc'[n][t] = "idle"
               /\ mu'[n].w = NoTask
               /\ UNCHANGED <<shutdown, closeCount, hubShutdowns, hubVars, ctrlVars>>]_vars

\* Three Shutdown calls were made on n1; one that found the flag set returned
\* while the first was still running, and the first, which closed the
\* clients, was the last to return.
C5Witness ==
    /\ AllReturned("n1")
    /\ calls["n1"]["sd1"] + calls["n1"]["sd2"] = 3
    /\ closeCount["n1"] = 1
    /\ hubShutdowns["n1"] = 1
    /\ hubConns["n1"] = {}
    /\ last = Ret("Shutdown", "n1", ErrNil, TRUE)

\* C6: in every window that an updateMetricsOnce call closes, the window from
\* construction to the first call included, at most one message built by
\* pubNode carries the metrics snapshot, whichever way pubNode calls
\* interleave with each other and with updateMetricsOnce; a message built in
\* a window that already has one carries no metrics.
C6Theorem ==
    /\ [](\A n \in LiveNodes : withMetrics[n] <= 1)
    /\ [][\A n \in LiveNodes, t \in PubNodeCallers :
            (withMetrics[n] = 1 /\ PubNodeOnce(n, t))
            => /\ pubMsg'[n][t].Metrics = 0
               /\ withMetrics'[n] = 1]_vars

\* After an updateMetricsOnce call two pubNode calls run concurrently on n1:
\* the ping task's message carries the new snapshot and the other caller's
\* message, built in the same window, carries none.
C6Witness ==
    /\ calls["n1"]["metrics"] = 1
    /\ pc["n1"]["metrics"] = "select"
    /\ withMetrics["n1"] = 1
    /\ pc["n1"]["ping"] = "metricsRUnlock"
    /\ pc["n1"]["pub"] = "metricsRUnlock"
    /\ pubMsg["n1"]["ping"].Metrics = metricsSnapshot["n1"]
    /\ metricsSnapshot["n1"] = 2
    /\ pubMsg["n1"]["pub"].Metrics = 0

\* C11: HandleControl on a command from another node returns BadRequest when
\* the method is none of node/unsubscribe/disconnect or the params do not
\* decode, leaving the registry, the subscriptions and the connections as
\* they were; a well-formed "node" command adds the sender to the registry
\* and touches nothing else, a well-formed "unsubscribe" command removes only
\* clients of the named user from channels and, when it returns nil, leaves
\* none of them in the named channel (in any channel when none is named), and
\* a well-formed "disconnect" command starts the close of every connection of
\* the named user and of no other.
PeerCmds(n) ==
    {cmd \in ForeignCmds(n) : cmd.uid # n}
    \cup (IF inbox[n] # <<>> /\ Head(inbox[n]).uid # n THEN {Head(inbox[n])} ELSE {})

Handles(n, cmd) ==
    \/ HandleForeignControl(n, cmd)
    \/ (inbox[n] # <<>> /\ Head(inbox[n]) = cmd /\ HandleControl(n))

Malformed(cmd) ==
    \/ cmd.method \notin {"node", "unsubscribe", "disconnect"}
    \/ "Malformed" \in DOMAIN cmd.params

UsersClients(n, user) == {c \in Clients : ClientNode(c) = n /\ ClientUser(c) = user}

C11Theorem ==
    [][\A n \in Nodes : \A cmd \in PeerCmds(n) :
         Handles(n, cmd) =>
           /\ Malformed(cmd)
              => /\ last' = Ret("HandleControl", n, ErrBadRequest, FALSE)
                 /\ UNCHANGED <<registry, hubSubs, hubConns, closing, engineSubs>>
           /\ (~Malformed(cmd) /\ cmd.method = "node")
              => /\ registry' = [registry EXCEPT ![n] = @ \cup {Field(cmd.params, "UID")}]
                 /\ last'.err = ErrNil
                 /\ UNCHANGED <<hubSubs, hubConns, closing, engineSubs>>
           /\ (~Malformed(cmd) /\ cmd.method = "unsubscribe")
              => LET user == Field(cmd.params, "User")
                     ch == Field(cmd.params, "Channel")
                 IN /\ UNCHANGED <<registry, hubConns, closing>>
                    /\ \A m \in Nodes, x \in SubChannels :
                         /\ hubSubs'[m][x] \subseteq hubSubs[m][x]
                         /\ hubSubs[m][x] \ hubSubs'[m][x]
                              \subseteq (IF m = n /\ ch \in {<<>>, x}
                                         THEN UsersClients(n, user) ELSE {})
                    /\ last'.err = ErrNil
                       => \A x \in SubChannels :
                            ch \in {<<>>, x} => hubSubs'[n][x] \cap UsersClients(n, user) = {}
           /\ (~Malformed(cmd) /\ cmd.method = "disconnect")
              => /\ closing' = closing \cup (UsersClients(n, Field(cmd.params, "User"))
                                                \cap hubConns[n])
                 /\ last'.err = ErrNil
                 /\ UNCHANGED <<registry, hubSubs, hubConns, engineSubs>>]_vars

\* n1 was handed a command from another node that it cannot handle and
\* returned BadRequest, with the user's client still subscribed.
C11Witness ==
    /\ last = Ret("HandleControl", "n1", ErrBadRequest, FALSE)
    /\ numForeign = 1
    /\ controlReceived["n1"] = 1
    /\ "c1" \in hubSubs["n1"][Room]
    /\ registry["n1"] = {<<"n1">>}

NodeInfoPublished(n) ==
    \E m \in Nodes : \E i \in 1..Len(inbox[m]) :
        inbox[m][i].uid = n /\ inbox[m][i].method = "node"

C13Theorem ==
    /\ [](\A n \in LiveNodes :
            /\ pc[n]["ping"] = "failed"
               => /\ ~NodeInfoPublished(n)
                  /\ calls[n]["ping"] = 0
                  /\ \A t \in Periodic \ {"ping"} : pc[n][t] = "created"
            /\ (\E t \in Periodic \ {"ping"} : pc[n][t] # "created")
               => (calls[n]["ping"] >= 1 /\ \A t \in Periodic : pc[n][t] # "created"))
    /\ [][\A n \in LiveNodes :
            /\ (Run(n) /\ last' = Ret("Run", n, ErrEngine, FALSE))
               => pc'[n]["ping"] = "failed"
            /\ (Run(n) /\ pc'[n]["ping"] = "failed")
               => last' = Ret("Run", n, ErrEngine, FALSE)
            /\ (pc[n]["metrics"] = "created" /\ PubNodePublish(n, "ping"))
               => (pc'[n]["ping"] = "spawn" /\ last'.err \in {ErrNil, ErrEngine})
            /\ RunSpawn(n)
               => /\ last' = Ret("Run", n, ErrNil, FALSE)
                  /\ \A t \in Periodic : pc'[n][t] = "select"]_vars

\* Run's own node-info publish failed, Run started the tasks, and the ping
\* task's next pubNode published the node-info command.
C13Witness ==
    /\ calls["n1"]["ping"] = 2
    /\ pc["n1"]["ping"] = "select"
    /\ numCtrl = 1
    /\ NodeInfoPublished("n1")
    /\ last.op = "pubNode"
    /\ last.err = ErrNil
    /\ closeCount["n1"] = 0

\* C14: once shutdownCh is closed and Run has started the periodic tasks,
\* each of the ping, clean and metrics tasks eventually returns, wherever in
\* its loop it is, given that the scheduler runs it and that an engine
\* publish in flight returns.
C14Theorem ==
    \A n \in LiveNodes : \A t \in Periodic :
        (closeCount[n] > 0 /\ pc[n]["metrics"] # "created") ~> (pc[n][t] = "stopped")

\* Shutdown closed shutdownCh while the ping task was inside pubNode and the
\* other two were in their loops, and all three have returned.
C14Witness ==
    /\ closeCount["n1"] = 1
    /\ \A t \in Periodic : pc["n1"][t] = "stopped"
    /\ calls["n1"]["ping"] = 2
    /\ calls["n1"]["metrics"] = 1
    /\ calls["n1"]["clean"] = 1
    /\ last.op = "pubNode"

\* The channel ns + namespace_channel_boundary + "foo" of node n's configuration.
NsFoo(n, ns) == ns \o config[n].NamespaceChannelBoundary \o Foo

LastIndex(s, sep) ==
    LET hits == {i \in 1..Len(s) : i + Len(sep) - 1 <= Len(s)
                                   /\ SubSeq(s, i, i + Len(sep) - 1) = sep}
    IN IF hits = {} THEN 0 ELSE CHOOSE i \in hits : \A j \in hits : j <= i

\* The part of ch after its last user boundary.
AfterLastBoundary(cfg, ch) ==
    SubSeq(ch, LastIndex(ch, cfg.UserChannelBoundary) + Len(cfg.UserChannelBoundary), Len(ch))

\* u is one of the ids of list: u holds no separator and occurs in list between
\* two separators, or between a separator and an end of list, or is all of list.
ListedIn(list, sep, u) ==
    /\ ~Contains(u, sep)
    /\ \E i \in 1..(Len(list) + 1) :
         LET j == i + Len(u) - 1
         IN /\ j <= Len(list)
            /\ SubSeq(list, i, j) = u
            /\ \/ i = 1
               \/ i - Len(sep) >= 1 /\ SubSeq(list, i - Len(sep), i - 1) = sep
            /\ \/ j = Len(list)
               \/ j + Len(sep) <= Len(list) /\ SubSeq(list, j + 1, j + Len(sep)) = sep

\* C16: UserAllowed(ch, u) returns true if and only if ch contains no user
\* boundary, or u is one of the ids that the part of ch after its last user
\* boundary lists between user separators; for every channel and user id,
\* several boundaries and the empty user id included.
C16Theorem ==
    res.op = "UserAllowed" =>
        LET cfg == config[res.node]
        IN res.val = (\/ ~Contains(arg.ch, cfg.UserChannelBoundary)
                      \/ ListedIn(AfterLastBoundary(cfg, arg.ch),
                                  cfg.UserChannelSeparator, arg.user))

C16Witness ==
    /\ res.op = "UserAllowed"
    /\ arg.ch = <<"#", "a", "#">>
    /\ arg.user = <<>>
    /\ res.val = TRUE

\* C17: right after each clean of a node's registry, whatever node-info
\* commands, own pings and cleans came before, every entry but the node's own
\* was heard at most max_delay ago, the node's own entry is present, and a
\* clean of the resulting registry at the same time removes nothing.
C17Theorem ==
    [][\A n \in LiveNodes :
         CleanNodeInfo(n) =>
            /\ \A u \in registry'[n] \ {<<n>>} : now' - heard'[n][u] <= NodeInfoMaxDelay
            /\ <<n>> \in registry'[n]
            /\ Clean(n, registry'[n], heard'[n], now', NodeInfoMaxDelay) = registry'[n]]_vars

\* A peer's node-info was received, its entry has been cleaned away, and the
\* node's own entry is present although it is older than max_delay.
C17Witness ==
    /\ numForeign = 1
    /\ controlReceived["n1"] = 1
    /\ calls["n1"]["clean"] = 1
    /\ pc["n1"]["clean"] = "select"
    /\ registry["n1"] = {<<"n1">>}
    /\ now - heard["n1"][<<"n1">>] > NodeInfoMaxDelay

\* Task t takes node n's lock l in this step.
Acquires(l, n, t) == Holds(l, n, t)' /\ ~Holds(l, n, t)

\* C18: no task takes the hub's lock or the node lock while it holds the
\* metrics lock, and no task takes the node lock while it is inside a hub call.
C18Claim ==
    /\ [](\A n \in Nodes : \A e \in hubLockedWith[n] : "metricsMu" \notin e.held)
    /\ [][\A n \in Nodes : \A t \in Tasks :
            Acquires(mu, n, t) =>
                (~Holds(metricsMu, n, t) /\ hubLockedWith'[n] = hubLockedWith[n])]_vars

\* The positions at which a task is inside an engine call, and the hub's
\* write methods.
InEngineCall == {"publish", "presenceEngine"}
HubWriteMethods == {"Add", "Remove", "AddSub", "RemoveSub", "Shutdown"}

\* C19: a task that is inside an engine call (pubNode's PublishControl,
\* AddPresence's engine.AddPresence) does not hold the node lock, and no hub
\* write method (hub.Shutdown) was called by a task holding the node lock.
C19Theorem ==
    \A n \in Nodes :
        /\ \A t \in Tasks : pc[n][t] \in InEngineCall => ~Holds(mu, n, t)
        /\ \A e \in hubLockedWith[n] : e.op \in HubWriteMethods => "mu" \notin e.held

\* Shutdown has called hub.Shutdown without the node lock, while pubNode is
\* inside PublishControl and AddPresence inside the engine, the node lock held
\* by nobody.
C19Witness ==
    /\ [op |-> "Shutdown", held |-> {}] \in hubLockedWith["n1"]
    /\ pc["n1"]["ping"] = "publish"
    /\ pc["n1"]["presence"] = "presenceEngine"
    /\ mu["n1"] = [w |-> NoTask, r |-> {}, p |-> {}]

\* pubNode caller t passes the latch as the first since it was last reset.
FiresLatch(n, t) == PubNodeOnce(n, t) /\ ~metricsOnceDone[n]

\* The statement for each updateMetricsOnce call by itself: the first message
\* after the k-th call carries the snapshot that the k-th call stored, the
\* (k+1)-th of the node.
C20Claimed ==
    [][\A n \in LiveNodes, t \in PubNodeCallers :
         FiresLatch(n, t) =>
            \A k \in 1..calls[n]["metrics"] :
                (k + 1) \notin carried[n] => pubMsg'[n][t].Metrics = k + 1]_vars

\* C20: the first node-info message to pass the latch after an
\* updateMetricsOnce call carries the snapshot stored by the latest
\* updateMetricsOnce call that has returned by then, which is that call's when
\* no other call came in between; no updateMetricsOnce call is between its
\* lock and its unlock at that moment.
C20Theorem ==
    [][\A n \in LiveNodes, t \in PubNodeCallers :
         FiresLatch(n, t) =>
            /\ pubMsg'[n][t].Metrics = calls[n]["metrics"] + 1
            /\ pubMsg'[n][t].Metrics = metricsSnapshot[n]
            /\ pc[n]["metrics"] \notin {"snapshot", "reset", "unlock"}]_vars

\* Two updateMetricsOnce calls returned, each followed by a message that
\* carried its snapshot.
C20Witness ==
    /\ calls["n1"]["metrics"] = 2
    /\ pc["n1"]["metrics"] = "select"
    /\ carried["n1"] = {1, 2, 3}
    /\ pc["n1"]["pub"] = "metricsRUnlock"
    /\ pubMsg["n1"]["pub"].Metrics = 3

\* C21: when a pubNode call reaches its control publish the node's own entry
\* is in its registry, and when the call returns, the publish having
\* succeeded or failed, the entry is there and Info lists the node.
C21Theorem ==
    [][\A n \in LiveNodes, t \in PubNodeCallers :
         PubNodePublish(n, t) =>
            /\ <<n>> \in registry[n]
            /\ <<n>> \in registry'[n]
            /\ <<n>> \in Info(n)']_vars

\* The first pubNode of n1 returned the engine's error, nothing was published,
\* and the registry, empty at construction, holds n1's entry.
C21Witness ==
    /\ last = Ret("pubNode", "n1", ErrEngine, TRUE)
    /\ calls["n1"]["ping"] = 1
    /\ pc["n1"]["ping"] = "spawn"
    /\ numCtrl = 0
    /\ Info("n1") = {<<"n1">>}

\* C22: Unsubscribe(user, ch) with a non-empty ch leaves the subscriptions to
\* every channel other than ch as they were, on the node it is called on and
\* on each node that handles the control command it published.
C22Claim ==
    [][\A n \in Nodes :
         /\ \A u \in ApiUsers, ch \in ApiChannels \ {<<>>} :
              Unsubscribe(n, u, ch) =>
                 \A x \in SubChannels \ {ch} : hubSubs'[n][x] = hubSubs[n][x]
         /\ (/\ inbox[n] # <<>>
             /\ Head(inbox[n]).src.op = "Unsubscribe"
             /\ Head(inbox[n]).src.ch # <<>>
             /\ HandleControl(n))
              => \A x \in SubChannels \ {Head(inbox[n]).src.ch} :
                    hubSubs'[n][x] = hubSubs[n][x]]_vars

\* C23: when no AddSubscription or RemoveSubscription call is in progress
\* (every engine call of the model succeeds), the engine is subscribed to a
\* channel on a node iff the node's hub has a subscriber for it.
C23Claim ==
    (\A c \in Clients : call[c] = Idle)
        => \A n \in Nodes, ch \in SubChannels :
              (ch \in engineSubs[n]) <=> (hubSubs[n][ch] # {})


\* C24: no reachable interleaving of the node's operations deadlocks on the
\* node lock, the metrics lock and the hub lock, with readers/writer locks in
\* which a waiting writer keeps new readers out: whenever some tasks hold one
\* of the three locks or wait for one as a writer, one of them can take its
\* next step.
StepOf(n, t) ==
    \/ PubNodeRLock(n, t)
    \/ PubNodeMetricsRLock(n, t)
    \/ PubNodeOnce(n, t)
    \/ PubNodeMetricsRUnlock(n, t)
    \/ PubNodeRUnlock(n, t)
    \/ t = "metrics" /\ updateMetricsOnceLock(n)
    \/ t = "metrics" /\ updateMetricsOnceSnapshot(n)
    \/ t = "metrics" /\ updateMetricsOnceReset(n)
    \/ t = "metrics" /\ updateMetricsOnceUnlock(n)
    \/ ShutdownLock(n, t)
    \/ ShutdownFlag(n, t)
    \/ ShutdownUnlock(n, t)
    \/ ShutdownHub(n, t)
LockUsers(n) ==
    {t \in Tasks :
        \/ Holds(mu, n, t) \/ Holds(metricsMu, n, t) \/ Holds(hubMu, n, t)
        \/ t \in mu[n].p \/ t \in metricsMu[n].p \/ t \in hubMu[n].p}
C24Theorem ==
    \A n \in LiveNodes :
        LockUsers(n) # {} => \E t \in LockUsers(n) : ENABLED StepOf(n, t)
\* A Shutdown waits for the node lock that a pubNode holds as a reader, so a
\* new reader would be kept out, while that pubNode waits for the metrics lock
\* that updateMetricsOnce holds as the writer.
C24Witness ==
    /\ "sd1" \in mu["n1"].p
    /\ "ping" \in mu["n1"].r
    /\ pc["n1"]["ping"] = "metricsRLock"
    /\ metricsMu["n1"].w = "metrics"
    /\ ~CanRLock("n1")

====
